---- MODULE Spec2Model ----
(***************************************************************************)
(* Model of the sqlite_logs instrumentation engine.                        *)
(*                                                                         *)
(*   Logger       src/src/sqlite_log/logger.py   (decorator try_except)    *)
(*   LoggerInfo   src/src/logger/logger_type.py  (run configuration)       *)
(*   SystemInfo   src/src/sqlite_log/get_system_info.py (telemetry)        *)
(*   SQLiteLog    src/src/sqlite_log/sqlite_log.py (older sink, its own    *)
(*                try_except)                                              *)
(*   SQLiteLog    src/src/logger/logger_output.py (rotating sink)          *)
(*                                                                         *)
(* A Python value is the pair <<type name, str() text>>; a dict is a       *)
(* function whose DOMAIN is its key set.                                   *)
(***************************************************************************)
EXTENDS Integers, Sequences, FiniteSets, TLC

VARIABLES
    objs,           \* the LoggerInfo objects: objs["logger"] is Logger.__logger_info,
                    \* objs[t] the object thread t's running wrapper call created
    init_config,    \* the config the Logger's LoggerInfo was constructed with
    wrappers,       \* the closures try_except has returned, in wrapping order
    inv,            \* per thread: the wrapper invocation in progress / last finished
    persisted,      \* rows the LoggerOutput accepted, each with the call that wrote it
    ncalls,         \* number of wrapper invocations started so far
    old,            \* state of the older SQLiteLog sink and its invocations
    sink,           \* state of the rotating SQLiteLog sink and the database files
    wrap_exc,       \* the exception the last try_except call raised, "" for none
    last,           \* the last method called directly on a LoggerInfo, with its result
    reader,         \* state of a ReadLog and the files of its folder
    outs,           \* per thread: the call of the rotating sink's output in progress
    field           \* a LoggerField: the flags of its constructor and its field list

vars == <<objs, init_config, wrappers, inv, persisted, ncalls, old, sink, wrap_exc, last,
          reader, outs, field>>

-----------------------------------------------------------------------------
(* Bounds of the model *)

MaxFuncs == 2       \* functions wrapped through one Logger
MaxCalls == 2       \* wrapper invocations in one behaviour

Threads == {"t1", "t2"}

-----------------------------------------------------------------------------
(* Python values *)

PyStr(s) == <<"str", s>>
PyInt(s) == <<"int", s>>
PyFloat(s) == <<"float", s>>
PyNone == <<"NoneType", "None">>

\* str(v)
Str(v) == v[2]

\* str(args) of the one-element positional tuple (a,)
StrArgs(a) == "(" \o Str(a) \o ",)"

\* str(kwargs) of the empty keyword dict
StrKwargs == "{}"

\* "Exception" in the method resolution order of an exception class:
\* what `except Exception` matches.
ExceptionClasses == {"ZeroDivisionError", "ValueError", "KeyError", "OperationalError"}
BaseOnlyClasses == {"SystemExit", "KeyboardInterrupt"}
IsException(cls) == cls \in ExceptionClasses

Restrict(d, S) == [k \in S |-> d[k]]
DictUpdate(d, u) == [k \in DOMAIN d \cup DOMAIN u |-> IF k \in DOMAIN u THEN u[k] ELSE d[k]]
EmptyDict == [k \in {} |-> FALSE]

-----------------------------------------------------------------------------
(* Field schema registry: src/src/logger/logger_type.py *)

FIELD_GROUP ==
    [base     |-> <<"level", "tag", "timestamp", "message">>,
     function |-> <<"function_name", "args", "kwargs", "function_time", "function_return">>,
     thread   |-> <<"thread_name", "thread_id", "process_id">>,
     system   |-> <<"computer", "cpu", "memory", "gpu", "host">>]

FIELD_DEFAULT_VALUE ==
    [level           |-> PyStr("LOG"),
     timestamp       |-> PyFloat("0.0"),
     message         |-> PyStr(""),
     tag             |-> PyStr(""),
     function_name   |-> PyStr(""),
     args            |-> PyStr(""),
     kwargs          |-> PyStr(""),
     function_time   |-> PyFloat("0.0"),
     function_return |-> PyStr(""),
     error_type      |-> PyStr(""),
     traceback       |-> PyStr(""),
     thread_name     |-> PyStr(""),
     thread_id       |-> PyInt("0"),
     process_id      |-> PyInt("0"),
     computer        |-> PyStr(""),
     cpu             |-> PyStr(""),
     memory          |-> PyStr(""),
     gpu             |-> PyStr(""),
     host            |-> PyStr("")]

LoggerMark == {"level", "tag", "message"}
LoggerRecord == {"function", "thread", "computer", "cpu", "memory", "gpu", "host"}

DEFAULT_LOGGER_TAG ==
    [level    |-> "LOG",
     tag      |-> "",
     message  |-> "",
     function |-> TRUE,
     thread   |-> TRUE,
     computer |-> TRUE,
     cpu      |-> TRUE,
     memory   |-> TRUE,
     gpu      |-> TRUE,
     host     |-> TRUE]

Range(s) == {s[i] : i \in DOMAIN s}

-----------------------------------------------------------------------------
(* LoggerInfo: src/src/logger/logger_type.py *)

\* The fields one disabled record key deletes.
DeletedBy(k) ==
    IF k \in Range(FIELD_GROUP.system) THEN {k}
    ELSE IF k = "function" \/ k = "thread" THEN Range(FIELD_GROUP[k])
    ELSE {}

\* LoggerInfo.__set_config, applied to the fresh copy of FIELD_DEFAULT_VALUE:
\* mark keys overwrite the default, disabled record keys delete their fields.
set_config(config, fdv) ==
    LET off  == {k \in LoggerRecord : config[k] = FALSE}
        gone == UNION {DeletedBy(k) : k \in off}
    IN  [f \in DOMAIN fdv \ gone |->
            IF f \in LoggerMark THEN PyStr(config[f]) ELSE fdv[f]]

\* LoggerInfo.reset_data
reset_data(li) ==
    [li EXCEPT !.field_value = li.field_default_value,
               !.is_record = li.is_default_record]

\* LoggerInfo.__init__(config)
LoggerInfo(config) ==
    LET cfg == DictUpdate(DEFAULT_LOGGER_TAG, config)
    IN  reset_data(
            [config              |-> cfg,
             is_default_record   |-> Restrict(cfg, LoggerRecord),
             field_default_value |-> set_config(cfg, FIELD_DEFAULT_VALUE),
             field_value         |-> EmptyDict,
             is_record           |-> EmptyDict])

\* LoggerInfo.get_is_record / get_field_value
get_is_record(li) == li.is_record
get_field_value(li) == li.field_value

\* set_field_value that stores under any key.
set_field_value_any(li, key, value) ==
    [li EXCEPT !.field_value = DictUpdate(@, [k \in {key} |-> value])]

\* LoggerInfo.set_field_value: the object after the call (unchanged when the
\* key is not an active field, where the method returns False).
set_field_value(li, key, value) ==
    IF key \in DOMAIN li.field_value
    THEN [li EXCEPT !.field_value[key] = value]
    ELSE li

\* The value set_field_value returns.
set_field_value_ret(li, key) == key \in DOMAIN li.field_value

\* dict.pop(field) for each field in turn; KeyError at the first missing one.
RECURSIVE pop_fields(_, _)
pop_fields(fdv, fields) ==
    IF fields = <<>> THEN [d |-> fdv, raised |-> FALSE]
    ELSE IF Head(fields) \notin DOMAIN fdv THEN [d |-> fdv, raised |-> TRUE]
    ELSE pop_fields(Restrict(fdv, DOMAIN fdv \ {Head(fields)}), Tail(fields))

\* LoggerInfo.update_record(config): config is the dict as its item sequence
\* <<key, value>>.  Result: the object and whether KeyError was raised (then
\* reset_data was not reached).
RECURSIVE update_record(_, _)
update_record(li, items) ==
    IF items = <<>> THEN [li |-> reset_data(li), raised |-> FALSE]
    ELSE
        LET k == Head(items)[1]
            v == Head(items)[2]
        IN  IF k \in LoggerMark THEN
                update_record(
                    [li EXCEPT !.config[k] = v,
                               !.field_default_value[k] = PyStr(v)],
                    Tail(items))
            ELSE IF k \in LoggerRecord /\ v = FALSE THEN
                LET li1 == [li EXCEPT !.config[k] = FALSE,
                                      !.is_default_record[k] = FALSE]
                    popped ==
                        IF k \in Range(FIELD_GROUP.system)
                        THEN pop_fields(li1.field_default_value, <<k>>)
                        ELSE IF k = "function" \/ k = "thread"
                        THEN pop_fields(li1.field_default_value, FIELD_GROUP[k])
                        ELSE [d |-> li1.field_default_value, raised |-> FALSE]
                    li2 == [li1 EXCEPT !.field_default_value = popped.d]
                IN  IF popped.raised
                    THEN [li |-> li2, raised |-> TRUE]
                    ELSE update_record(li2, Tail(items))
            ELSE update_record(li, Tail(items))

\* A copy built from the default configuration.
copy_default(heap, self, new) ==
    [ref |-> new, heap |-> [heap EXCEPT ![new] = LoggerInfo(EmptyDict)]]

\* A copy that returns the object itself.
copy_alias(heap, self, new) == [ref |-> self, heap |-> heap]

\* LoggerInfo.copy: a new LoggerInfo object built from self.__config alone.
\* heap maps object names to objects; the new object is stored under `new`
\* and returned by reference.
copy(heap, self, new) ==
    [ref |-> new, heap |-> [heap EXCEPT ![new] = LoggerInfo(heap[self].config)]]

-----------------------------------------------------------------------------
(* Function documentation and the tag parser: Logger.__parse_func_doc *)

\* A documentation string is [has |-> it is a non-empty string,
\* tokens |-> the matches of TAG_REGULAR, each as the list
\* item.lstrip("#").split(":")].
NoDoc == [has |-> FALSE, tokens |-> <<>>]
Doc(tokens) == [has |-> TRUE, tokens |-> tokens]

\* str.lower() on the tag values in use
Lower(s) ==
    CASE s = "False" -> "false"
      [] s = "FALSE" -> "false"
      [] s = "True"  -> "true"
      [] s = "WARN"  -> "warn"
      [] OTHER       -> s

\* func_re_tag[key] = value on an insertion-ordered dict
DictSet(items, k, v) ==
    IF \E i \in DOMAIN items : items[i][1] = k
    THEN [i \in DOMAIN items |-> IF items[i][1] = k THEN <<k, v>> ELSE items[i]]
    ELSE Append(items, <<k, v>>)

\* The for loop of __parse_func_doc over the regex matches: the dict
\* func_re_tag, or ValueError when a match does not split into two parts.
RECURSIVE parse_tokens(_, _, _)
parse_tokens(tokens, func_tag_keys, func_re_tag) ==
    IF tokens = <<>> THEN [tag |-> func_re_tag, raised |-> FALSE]
    ELSE
        LET item == Head(tokens)
        IN  IF Len(item) # 2 THEN [tag |-> func_re_tag, raised |-> TRUE]
            ELSE
                LET key == item[1]
                    value == item[2]
                IN  IF key \in func_tag_keys THEN
                        IF key \in LoggerMark
                        THEN parse_tokens(Tail(tokens), func_tag_keys,
                                          DictSet(func_re_tag, key, value))
                        ELSE parse_tokens(Tail(tokens), func_tag_keys,
                                          DictSet(func_re_tag, key,
                                                  IF Lower(value) = "false" THEN FALSE ELSE TRUE))
                    ELSE parse_tokens(Tail(tokens), func_tag_keys, func_re_tag)

\* Logger.__parse_func_doc(func): the shared LoggerInfo after the call and the
\* exception it raised, if any ("" for none).
parse_func_doc(li, doc) ==
    IF ~doc.has THEN [li |-> li, exc |-> ""]
    ELSE
        LET parsed == parse_tokens(doc.tokens, DOMAIN get_field_value(li), <<>>)
        IN  IF parsed.raised THEN [li |-> li, exc |-> "ValueError"]
            ELSE
                LET upd == update_record(li, parsed.tag)
                IN  [li |-> upd.li, exc |-> IF upd.raised THEN "KeyError" ELSE ""]

-----------------------------------------------------------------------------
(* Telemetry provider: SystemInfo, src/src/sqlite_log/get_system_info.py *)

\* SystemInfo.DEFAULT_CONFIG; Logger.__init__ builds SystemInfo() with it.
DEFAULT_CONFIG == [computer |-> TRUE, cpu |-> TRUE, memory |-> TRUE, gpu |-> TRUE]

\* SystemInfo.get_<what>_info(): self.__config[what] is looked up first
\* (KeyError when the key is absent), then the JSON text or None is returned.
get_info(config, what) ==
    IF what \notin DOMAIN config THEN [exc |-> "KeyError", val |-> PyNone]
    ELSE IF config[what] THEN [exc |-> "", val |-> PyStr(what \o "_json")]
    ELSE [exc |-> "", val |-> PyNone]

\* Logger.__set_system_logger, line by line: <<is_record key, getter called>>.
\* The "computer" field is filled by get_host_info().
SystemSteps ==
    << <<"computer", "host">>, <<"cpu", "cpu">>, <<"memory", "memory">>,
       <<"gpu", "gpu">>, <<"host", "host">> >>

RECURSIVE set_system_steps(_, _)
set_system_steps(li, steps) ==
    IF steps = <<>> THEN [li |-> li, exc |-> ""]
    ELSE
        LET key == Head(steps)[1]
            got == get_info(DEFAULT_CONFIG, Head(steps)[2])
        IN  IF get_is_record(li)[key] = TRUE THEN
                IF got.exc # "" THEN [li |-> li, exc |-> got.exc]
                ELSE set_system_steps(set_field_value(li, key, got.val), Tail(steps))
            ELSE set_system_steps(li, Tail(steps))

\* Logger.__set_system_logger
set_system_logger(li) == set_system_steps(li, SystemSteps)

\* threading.current_thread().ident of a thread
ThreadIdent(t) == IF t = "t1" THEN "101" ELSE "102"

\* Logger.__set_thread_logger
set_thread_logger(li, t) ==
    IF get_is_record(li)["thread"] = TRUE
    THEN set_field_value(
             set_field_value(
                 set_field_value(li, "thread_name", PyStr(t)),
                 "thread_id", PyInt(ThreadIdent(t))),
             "process_id", PyInt("4242"))
    ELSE li

-----------------------------------------------------------------------------
(* Logger: src/src/sqlite_log/logger.py *)

\* __run_error_return that hands back error_return without calling it.
run_error_return_uncalled(error_return, call) ==
    [val |-> error_return.value, exc |-> ""]

\* __run_error_return without its try: the inner exception propagates.
run_error_return_unguarded(error_return, call) ==
    IF error_return.callable
    THEN IF call.exc = "" THEN [val |-> call.val, exc |-> ""]
         ELSE [val |-> PyNone, exc |-> call.exc]
    ELSE [val |-> error_return.value, exc |-> ""]

\* Logger.__run_error_return.  error_return is [callable, value]; call is
\* what invoking error_return() does this time: [exc, msg, val].  Result:
\* the value returned, or the exception that leaves the method.
run_error_return(error_return, call) ==
    IF error_return.callable THEN
        IF call.exc = "" THEN [val |-> call.val, exc |-> ""]
        ELSE IF IsException(call.exc)
        THEN [val |-> PyStr("Error return function error: " \o call.msg), exc |-> ""]
        ELSE [val |-> PyNone, exc |-> call.exc]
    ELSE [val |-> error_return.value, exc |-> ""]

\* func.__name__ of the i-th wrapped function
FuncName(i) == "func" \o ToString(i)

\* wrapper, lines 113-124: the per-call copy and the context capture.
\* w is the closure (its is_record was read at wrapping time).  Result: the
\* heap, the reference held by the local logger_info, the exception raised.
wrapper_begin(heap, w, a, t) ==
    LET made == copy(heap, "logger", t)
        li1 == set_field_value(made.heap[made.ref], "timestamp", PyStr("isoformat"))
        sys == set_system_logger(li1)
        li2 == set_thread_logger(sys.li, t)
        li3 == IF w.is_record["function"] = TRUE
               THEN set_field_value(
                        set_field_value(
                            set_field_value(li2, "function_name", PyStr(w.name)),
                            "args", PyStr(StrArgs(a))),
                        "kwargs", PyStr(StrKwargs))
               ELSE li2
    IN  [heap |-> [made.heap EXCEPT ![made.ref] = IF sys.exc # "" THEN sys.li ELSE li3],
         ref  |-> made.ref,
         exc  |-> sys.exc]

\* wrapper, lines 129-134: the except clause matched exception cls.
wrapper_except(li, w, cls) ==
    IF w.is_record["function"] = TRUE
    THEN set_field_value(
             set_field_value(li, "traceback", PyStr("Traceback (most recent call last): " \o cls)),
             "error_type", PyStr("Function error: " \o cls))
    ELSE li

\* wrapper, lines 136-141: the head of the finally clause.
wrapper_finally(li, w, return_value) ==
    IF w.is_record["function"] = TRUE
    THEN set_field_value(
             set_field_value(li, "function_return", PyStr(Str(return_value))),
             "function_time", PyFloat("elapsed"))
    ELSE li

\* LoggerOutput.output(data) as SQLiteLog implements it: the row of
\* data.get_field_value() is inserted and committed, or the insert raises.
output(rows, data, id, fails) ==
    IF fails THEN [rows |-> rows, exc |-> "OperationalError"]
    ELSE [rows |-> Append(rows, [rec |-> get_field_value(data), by |-> id]), exc |-> ""]

\* An output handler that catches nothing.
output_caught_nothing(exc) == FALSE

\* wrapper, lines 143-147: `except Exception` around the output call.
output_caught(exc) == IsException(exc)

\* A handler for the target that names one exception class only.
target_caught_narrow(cls) == cls = "ValueError"

\* wrapper, line 129: `except Exception` around the target call.
target_caught(cls) == IsException(cls)

-----------------------------------------------------------------------------
(* Inputs *)

\* Configurations a Logger is constructed with (LoggerInfo(config)).
\* The first MainConfigs of them are those of Spec.
MainConfigs == 1..3
InitConfigs ==
    << EmptyDict,
       [computer |-> FALSE, host |-> FALSE],
       [computer |-> FALSE, host |-> FALSE, function |-> FALSE],
       [computer |-> FALSE, host |-> FALSE, gpu |-> FALSE],
       [computer |-> FALSE, host |-> FALSE, level |-> "INFO"] >>

\* Documentation strings of the wrapped functions: none,
\* "#level:WARN #gpu:false", "#computer:False #host:false", "#level:INFO",
\* "#function:false", "#thread:false", "#owner:me", "#tag:a:b".
\* The first MainDocs of them are those of Spec.
MainDocs == 1..3
Docs ==
    << NoDoc,
       Doc(<< <<"level", "WARN">>, <<"gpu", "false">> >>),
       Doc(<< <<"computer", "False">>, <<"host", "false">> >>),
       Doc(<< <<"level", "INFO">> >>),
       Doc(<< <<"function", "false">> >>),
       Doc(<< <<"thread", "false">> >>),
       Doc(<< <<"owner", "me">> >>),
       Doc(<< <<"tag", "a", "b">> >>) >>

\* error_return arguments: a literal, a callable.
ErrorReturns ==
    << [callable |-> FALSE, value |-> PyInt("-1")],
       [callable |-> TRUE,  value |-> PyNone] >>

\* What a call of error_return() can do.
ErCalls ==
    << [exc |-> "", msg |-> "", val |-> PyStr("fallback")],
       [exc |-> "ValueError", msg |-> "boom", val |-> PyNone],
       [exc |-> "KeyboardInterrupt", msg |-> "", val |-> PyNone] >>
NoErCall == [exc |-> "", msg |-> "", val |-> PyNone]

\* The positional argument of the n-th wrapper invocation: every call is
\* made with an argument of its own.
ArgOf(n) == PyInt(ToString(n))
RetValues == {PyInt("7"), PyFloat("0.5")}
TargetRaises == {"ZeroDivisionError", "SystemExit"}

NoTarget == [kind |-> "none", val |-> PyNone, exc |-> ""]
NoOutcome == [kind |-> "none", val |-> PyNone, exc |-> ""]
Returned(v) == [kind |-> "returned", val |-> v, exc |-> ""]
Raised(cls) == [kind |-> "raised", val |-> PyNone, exc |-> cls]

IdleInv ==
    [pc |-> "idle", id |-> 0, w |-> 0, args |-> PyNone, li |-> "logger",
     target |-> NoTarget, ercalled |-> FALSE, ercall |-> NoErCall,
     return_value |-> PyNone, pending |-> "", sink |-> "none", outputs |-> 0,
     outcome |-> NoOutcome]

-----------------------------------------------------------------------------
(* The Logger and its wrappers as a state machine *)

ObjIds == {"logger"} \cup Threads

\* No older sink constructed; the older sinks are modelled further down.
NoOldSink == [variant |-> "none"]

\* No method called directly on a LoggerInfo.
NoCall == [op |-> "", obj |-> "", key |-> "", value |-> PyNone, ret |-> FALSE,
           ref |-> "", raised |-> ""]

\* No rotating sink constructed; the rotating sink is modelled further down.
NoSink == [state |-> "none"]

\* No ReadLog constructed; ReadLog is modelled further down.
NoReader == [state |-> "none"]

\* No LoggerField constructed; LoggerField is modelled further down.
NoField == [state |-> "none"]

\* No thread is inside output of the rotating sink.
IdleOut == [pc |-> "idle", estimate |-> 0, loaded |-> 0]
NoOuts == [t \in Threads |-> IdleOut]

\* Logger.__init__: the Logger keeps a copy of the LoggerInfo it is given.
Init ==
    /\ init_config \in MainConfigs
    /\ objs = [o \in ObjIds |->
                 IF o = "logger"
                 THEN LoggerInfo(LoggerInfo(InitConfigs[init_config]).config)
                 ELSE LoggerInfo(EmptyDict)]
    /\ wrappers = <<>>
    /\ inv = [t \in Threads |-> IdleInv]
    /\ persisted = <<>>
    /\ ncalls = 0
    /\ old = NoOldSink
    /\ sink = NoSink
    /\ wrap_exc = ""
    /\ last = NoCall
    /\ reader = NoReader
    /\ outs = NoOuts
    /\ field = NoField

\* Logger.try_except(func, error_return=...): parse the documentation into
\* the shared LoggerInfo, read is_record, return the closure.  When parsing
\* raises, no closure is returned.
try_except(d, e) ==
    /\ Len(wrappers) < MaxFuncs
    /\ LET parsed == parse_func_doc(objs["logger"], Docs[d])
       IN  /\ objs' = [objs EXCEPT !["logger"] = parsed.li]
           /\ wrappers' =
                IF parsed.exc = ""
                THEN Append(wrappers,
                            [doc          |-> d,
                             error_return |-> ErrorReturns[e],
                             is_record    |-> get_is_record(parsed.li),
                             name         |-> FuncName(Len(wrappers) + 1)])
                ELSE wrappers
           /\ wrap_exc' = parsed.exc
    /\ UNCHANGED <<init_config, inv, persisted, ncalls, old, sink, last, reader, outs, field>>

\* wrapper(*args), lines 113-126: thread t calls the i-th wrapped function.
\* An exception of the context capture leaves the wrapper at once: the
\* target is not called and nothing is written.
wrapper_call(t, i) ==
    /\ inv[t].pc \in {"idle", "done"}
    /\ ncalls < MaxCalls
    /\ i \in DOMAIN wrappers
    /\ LET a == ArgOf(ncalls + 1)
           begun == wrapper_begin(objs, wrappers[i], a, t)
           fresh == [IdleInv EXCEPT !.id = ncalls + 1, !.w = i, !.args = a,
                                    !.li = begun.ref]
       IN  /\ objs' = begun.heap
           /\ inv' = [inv EXCEPT ![t] =
                IF begun.exc = ""
                THEN [fresh EXCEPT !.pc = "running"]
                ELSE [fresh EXCEPT !.pc = "done", !.outcome = Raised(begun.exc)]]
    /\ ncalls' = ncalls + 1
    /\ UNCHANGED <<init_config, wrappers, persisted, old, sink, wrap_exc, last, reader, outs,
                   field>>

\* wrapper, line 128: the target returns v.
target_returns(t, v) ==
    /\ inv[t].pc = "running"
    /\ inv' = [inv EXCEPT ![t] =
            [@ EXCEPT !.pc = "success",
                      !.target = [kind |-> "return", val |-> v, exc |-> ""],
                      !.return_value = v]]
    /\ UNCHANGED <<objs, init_config, wrappers, persisted, ncalls, old, sink, wrap_exc, last,
                   reader, outs, field>>

\* wrapper, lines 128-134: the target raises cls.  `except Exception` runs
\* for the classes deriving from Exception: traceback and error_type are
\* recorded and return_value is computed by __run_error_return, where a call
\* of error_return() does ErCalls[c].  Any other exception stays pending
\* and return_value stays None.
target_raises(t, cls, c) ==
    /\ inv[t].pc = "running"
    /\ LET w == wrappers[inv[t].w]
           called == target_caught(cls) /\ w.error_return.callable
           call == IF called THEN ErCalls[c] ELSE NoErCall
           er == run_error_return(w.error_return, call)
       IN  /\ ~called => c = 1
           /\ objs' = IF target_caught(cls)
                      THEN [objs EXCEPT ![inv[t].li] = wrapper_except(@, w, cls)]
                      ELSE objs
           /\ inv' = [inv EXCEPT ![t] =
                IF target_caught(cls)
                THEN [@ EXCEPT !.pc = "failure",
                               !.target = [kind |-> "raise", val |-> PyNone, exc |-> cls],
                               !.ercalled = called,
                               !.ercall = call,
                               !.return_value = IF er.exc = "" THEN er.val ELSE PyNone,
                               !.pending = er.exc]
                ELSE [@ EXCEPT !.pc = "failure",
                               !.target = [kind |-> "raise", val |-> PyNone, exc |-> cls],
                               !.pending = cls]]
    /\ UNCHANGED <<init_config, wrappers, persisted, ncalls, old, sink, wrap_exc, last,
                   reader, outs, field>>

\* wrapper, lines 135-147: the finally clause.  function_return and
\* function_time are recorded, the record is handed to the output; an
\* Exception of the output is caught and reported on the console.
wrapper_output(t, fails) ==
    /\ inv[t].pc \in {"success", "failure"}
    /\ LET w == wrappers[inv[t].w]
           li == wrapper_finally(objs[inv[t].li], w, inv[t].return_value)
           out == output(persisted, li, inv[t].id, fails)
       IN  /\ objs' = [objs EXCEPT ![inv[t].li] = li]
           /\ persisted' = out.rows
           /\ inv' = [inv EXCEPT ![t] =
                [@ EXCEPT !.pc = "recorded",
                          !.outputs = @ + 1,
                          !.sink = IF out.exc = "" THEN "ok" ELSE "raised",
                          !.pending = IF out.exc # "" /\ ~output_caught(out.exc)
                                      THEN out.exc ELSE @]]
    /\ UNCHANGED <<init_config, wrappers, ncalls, old, sink, wrap_exc, last, reader, outs,
                   field>>

\* wrapper, line 149, or the pending exception leaving the wrapper.
wrapper_return(t) ==
    /\ inv[t].pc = "recorded"
    /\ inv' = [inv EXCEPT ![t] =
            [@ EXCEPT !.pc = "done",
                      !.outcome = IF inv[t].pending # "" THEN Raised(inv[t].pending)
                                  ELSE Returned(inv[t].return_value)]]
    /\ UNCHANGED <<objs, init_config, wrappers, persisted, ncalls, old, sink, wrap_exc, last,
                   reader, outs, field>>

Next ==
    \/ \E d \in MainDocs, e \in DOMAIN ErrorReturns : try_except(d, e)
    \/ \E t \in Threads, i \in 1..MaxFuncs : wrapper_call(t, i)
    \/ \E t \in Threads, v \in RetValues : target_returns(t, v)
    \/ \E t \in Threads, cls \in TargetRaises, c \in DOMAIN ErCalls : target_raises(t, cls, c)
    \/ \E t \in Threads, fails \in BOOLEAN : wrapper_output(t, fails)
    \/ \E t \in Threads : wrapper_return(t)

Spec == Init /\ [][Next]_vars

-----------------------------------------------------------------------------
(* The older sinks: SQLiteLog of src/src/sqlite_log/sqlite_log.py (variant
   "dict": the record is the shared dictionary self.field_value) and of
   src/sqlite_log.py (variant "list": the record is the local list
   messages).  Sizes are counted in units of one row. *)

OldMaxFuncs == 2
OldMaxCalls == 2

\* Depth at which the interpreter stops a recursion with RecursionError.
RecursionLimit == 3

\* Number of columns of LOGGER_TABLE_INFO, and of the values the wrapper
\* collects before the try statement of src/sqlite_log.py.
OldColumns == 17
OldCollected == 8
OldAssembled == 9

\* log_to_db: the estimate added for a row, len(str(datas)) + 100; the size
\* of a database file that holds the logs table and no row.
RowEstimate == 2
EmptyFile == 1

OldVariants == {"dict", "list"}
OldMaxDbSizes == {0, 1}
OldThrows == {"", "OperationalError"}

OldDocs ==
    << NoDoc,
       Doc(<< <<"tag", "db">>, <<"level", "INFO">>, <<"extra_info", "x">> >>),
       Doc(<< <<"error_level", "FATAL">> >>) >>

OldErrorReturns == << PyNone, PyInt("-1") >>

OldIdleInv ==
    [pc |-> "idle", id |-> 0, w |-> 0, args |-> PyNone, target |-> NoTarget,
     nmsg |-> 0, logs |-> 0, logfail |-> "", outcome |-> NoOutcome]

\* SQLiteLog.__init__: db_size 0, the first database file that does not
\* exist yet (index 1 in an empty folder) is created with its logs table.
OldSQLiteLog(variant, max_db_size) ==
    [variant     |-> variant,
     MAX_DB_SIZE |-> max_db_size,
     db_size     |-> 0,
     current_db  |-> 1,
     files       |-> 1,
     field_value |-> [h \in {"self"} \cup Threads |-> EmptyDict],
     wrappers    |-> <<>>,
     inv         |-> [t \in Threads |-> OldIdleInv],
     rows        |-> <<>>,
     ncalls      |-> 0]

\* The dictionary a wrapper writes: self.field_value, or the locals of the
\* invocation in src/sqlite_log.py.
Holder(s, t) == IF s.variant = "dict" THEN "self" ELSE t

\* os.path.getsize of database file db.
getsize(s, db) == EmptyFile + Cardinality({k \in DOMAIN s.rows : s.rows[k].db = db})

\* get_last_log: the first index without a file.
get_last_log(s) == s.files + 1

\* check_and_switch_db, re-entered through create_table after a switch.
RECURSIVE check_and_switch_db(_, _)
check_and_switch_db(s, depth) ==
    IF depth > RecursionLimit THEN [s |-> s, exc |-> "RecursionError"]
    ELSE IF s.db_size > s.MAX_DB_SIZE
    THEN LET sized == [s EXCEPT !.db_size = getsize(s, s.current_db)]
         IN  IF sized.db_size > sized.MAX_DB_SIZE
             THEN check_and_switch_db(
                      [sized EXCEPT !.current_db = get_last_log(sized),
                                    !.files = get_last_log(sized)],
                      depth + 1)
             ELSE [s |-> sized, exc |-> ""]
    ELSE [s |-> s, exc |-> ""]

\* log_to_db called by thread t; throws is what cursor.execute raises for a
\* reason outside the program (locked or full database).  The INSERT of
\* src/sqlite_log.py has OldColumns placeholders and is refused when the
\* list has another length.
log_to_db(s, t, throws) ==
    LET checked == check_and_switch_db(s, 1)
        c == checked.s
    IN  IF checked.exc # "" THEN checked
        ELSE IF s.variant = "list" /\ s.inv[t].nmsg # OldColumns
        THEN [s |-> c, exc |-> "ProgrammingError"]
        ELSE IF throws # "" THEN [s |-> c, exc |-> throws]
        ELSE [s |-> [c EXCEPT !.rows = Append(@, [rec |-> c.field_value[Holder(s, t)],
                                                  by  |-> c.inv[t].id,
                                                  db  |-> c.current_db]),
                              !.db_size = @ + RowEstimate],
              exc |-> ""]

\* The tags of a documentation string as a dictionary; a token that does not
\* split in two parts raises ValueError.
RECURSIVE old_func_tag(_, _)
old_func_tag(tokens, acc) ==
    IF tokens = <<>> THEN [tag |-> acc, raised |-> FALSE]
    ELSE IF Len(Head(tokens)) # 2 THEN [tag |-> acc, raised |-> TRUE]
    ELSE old_func_tag(Tail(tokens),
                      DictUpdate(acc, [k \in {Head(tokens)[1]} |-> Head(tokens)[2]]))

DictGet(d, k, default) == IF k \in DOMAIN d THEN d[k] ELSE default

\* The except clause of the wrapper: level, message and traceback of the
\* exception cls.
old_except(s, t, cls) ==
    LET w == s.wrappers[s.inv[t].w]
        h == Holder(s, t)
    IN  [s EXCEPT !.field_value[h] =
                DictUpdate(@, [level     |-> PyStr(w.error_level),
                               message   |-> PyStr(cls \o ": "),
                               traceback |-> PyStr("Traceback: " \o cls)]),
                  !.inv[t].nmsg = @ + OldAssembled]

\* SQLiteLog.try_except(func): the shared dictionary is replaced by a new
\* one that holds the tag of func (src/src/sqlite_log/sqlite_log.py).
OldTryExcept(d, e) ==
    /\ old.variant # "none"
    /\ Len(old.wrappers) < OldMaxFuncs
    /\ old.variant = "list" => d = 1
    /\ LET parsed == old_func_tag(OldDocs[d].tokens, EmptyDict)
           tag == parsed.tag
           closure == [doc          |-> d,
                       level        |-> DictGet(tag, "level", "LOG"),
                       error_level  |-> DictGet(tag, "error_level", "ERROR"),
                       tag          |-> DictGet(tag, "tag", ""),
                       extra_info   |-> DictGet(tag, "extra_info", ""),
                       error_return |-> OldErrorReturns[e]]
       IN  old' = IF old.variant = "dict"
                  THEN [old EXCEPT !.field_value["self"] =
                                       [tag        |-> PyStr(closure.tag),
                                        extra_info |-> PyStr(closure.extra_info)],
                                   !.wrappers = Append(@, closure)]
                  ELSE [old EXCEPT !.wrappers = Append(@, closure)]
    /\ UNCHANGED <<objs, init_config, wrappers, inv, persisted, ncalls, sink, wrap_exc, last,
                   reader, outs, field>>

\* wrapper(*args): the context is collected before the try statement.
OldWrapperCall(t, i) ==
    /\ old.variant # "none"
    /\ old.inv[t].pc \in {"idle", "done"}
    /\ old.ncalls < OldMaxCalls
    /\ i \in DOMAIN old.wrappers
    /\ LET a == ArgOf(old.ncalls + 1)
           h == Holder(old, t)
           base == IF old.variant = "dict" THEN old.field_value[h]
                   ELSE [tag        |-> PyStr(old.wrappers[i].tag),
                         extra_info |-> PyStr(old.wrappers[i].extra_info)]
       IN  old' = [old EXCEPT
                !.field_value[h] = DictUpdate(base, [args |-> PyStr(StrArgs(a))]),
                !.inv[t] = [OldIdleInv EXCEPT !.pc = "running", !.id = old.ncalls + 1,
                                              !.w = i, !.args = a, !.nmsg = OldCollected],
                !.ncalls = @ + 1]
    /\ UNCHANGED <<objs, init_config, wrappers, inv, persisted, ncalls, sink, wrap_exc, last,
                   reader, outs, field>>

\* The target returns v: level and message of the success record are set,
\* log_to_db is about to be called inside the try statement.
OldTargetReturns(t, v) ==
    /\ old.variant # "none"
    /\ old.inv[t].pc = "running"
    /\ LET h == Holder(old, t)
           w == old.wrappers[old.inv[t].w]
           level == [level |-> PyStr(w.level)]
           message == [message |-> PyStr("result: " \o Str(v))]
           traceback == IF old.variant = "list" THEN [traceback |-> PyNone] ELSE EmptyDict
       IN  old' = [old EXCEPT
                !.field_value[h] = DictUpdate(DictUpdate(DictUpdate(@, level), message), traceback),
                !.inv[t].pc = "log_try",
                !.inv[t].target = [kind |-> "return", val |-> v, exc |-> ""],
                !.inv[t].nmsg = @ + OldAssembled]
    /\ UNCHANGED <<objs, init_config, wrappers, inv, persisted, ncalls, sink, wrap_exc, last,
                   reader, outs, field>>

\* The target raises cls: `except Exception` assembles the error record and
\* is about to call log_to_db; any other exception leaves the wrapper.
OldTargetRaises(t, cls) ==
    /\ old.variant # "none"
    /\ old.inv[t].pc = "running"
    /\ LET raised == [old EXCEPT !.inv[t].target = [kind |-> "raise", val |-> PyNone, exc |-> cls]]
       IN  old' = IF IsException(cls)
                  THEN [old_except(raised, t, cls) EXCEPT !.inv[t].pc = "log_except"]
                  ELSE [raised EXCEPT !.inv[t].pc = "done", !.inv[t].outcome = Raised(cls)]
    /\ UNCHANGED <<objs, init_config, wrappers, inv, persisted, ncalls, sink, wrap_exc, last,
                   reader, outs, field>>

\* log_to_db inside the try statement, followed by `return result`.  An
\* Exception of log_to_db is caught by the except clause of the wrapper,
\* which assembles an error record for it.
OldLogInTry(t, throws) ==
    /\ old.variant # "none"
    /\ old.inv[t].pc = "log_try"
    /\ LET logged == log_to_db(old, t, throws)
           s == [logged.s EXCEPT !.inv[t].logs = @ + 1]
       IN  old' = IF logged.exc = ""
                  THEN [s EXCEPT !.inv[t].pc = "done",
                                 !.inv[t].outcome = Returned(old.inv[t].target.val)]
                  ELSE [old_except(s, t, logged.exc) EXCEPT
                                 !.inv[t].pc = "log_except",
                                 !.inv[t].logfail = logged.exc]
    /\ UNCHANGED <<objs, init_config, wrappers, inv, persisted, ncalls, sink, wrap_exc, last,
                   reader, outs, field>>

\* log_to_db inside the except clause, followed by `return error_return`.
\* Nothing catches an exception of this call.
OldLogInExcept(t, throws) ==
    /\ old.variant # "none"
    /\ old.inv[t].pc = "log_except"
    /\ LET logged == log_to_db(old, t, throws)
           s == [logged.s EXCEPT !.inv[t].logs = @ + 1]
           w == old.wrappers[old.inv[t].w]
       IN  old' = IF logged.exc = ""
                  THEN [s EXCEPT !.inv[t].pc = "done",
                                 !.inv[t].outcome = Returned(w.error_return)]
                  ELSE [s EXCEPT !.inv[t].pc = "done",
                                 !.inv[t].outcome = Raised(logged.exc),
                                 !.inv[t].logfail = logged.exc]
    /\ UNCHANGED <<objs, init_config, wrappers, inv, persisted, ncalls, sink, wrap_exc, last,
                   reader, outs, field>>

InitOld ==
    /\ init_config = 1
    /\ objs = [o \in ObjIds |-> LoggerInfo(EmptyDict)]
    /\ wrappers = <<>>
    /\ inv = [t \in Threads |-> IdleInv]
    /\ persisted = <<>>
    /\ ncalls = 0
    /\ sink = NoSink
    /\ wrap_exc = ""
    /\ last = NoCall
    /\ reader = NoReader
    /\ outs = NoOuts
    /\ field = NoField
    /\ \E variant \in OldVariants, m \in OldMaxDbSizes : old = OldSQLiteLog(variant, m)

NextOld ==
    \/ \E d \in DOMAIN OldDocs, e \in DOMAIN OldErrorReturns : OldTryExcept(d, e)
    \/ \E t \in Threads, i \in 1..OldMaxFuncs : OldWrapperCall(t, i)
    \/ \E t \in Threads, v \in RetValues : OldTargetReturns(t, v)
    \/ \E t \in Threads, cls \in TargetRaises : OldTargetRaises(t, cls)
    \/ \E t \in Threads, throws \in OldThrows : OldLogInTry(t, throws)
    \/ \E t \in Threads, throws \in OldThrows : OldLogInExcept(t, throws)

SpecOld == InitOld /\ [][NextOld]_vars

-----------------------------------------------------------------------------
(* Tags: one thread calls functions wrapped with every documentation string
   of Docs, through a Logger constructed with every config of InitConfigs. *)

InitTag ==
    /\ init_config \in DOMAIN InitConfigs
    /\ objs = [o \in ObjIds |->
                 IF o = "logger"
                 THEN LoggerInfo(LoggerInfo(InitConfigs[init_config]).config)
                 ELSE LoggerInfo(EmptyDict)]
    /\ wrappers = <<>>
    /\ inv = [t \in Threads |-> IdleInv]
    /\ persisted = <<>>
    /\ ncalls = 0
    /\ old = NoOldSink
    /\ sink = NoSink
    /\ wrap_exc = ""
    /\ last = NoCall
    /\ reader = NoReader
    /\ outs = NoOuts
    /\ field = NoField

NextTag ==
    \/ \E d \in DOMAIN Docs : try_except(d, 1)
    \/ \E i \in 1..MaxFuncs : wrapper_call("t1", i)
    \/ \E v \in RetValues : target_returns("t1", v)
    \/ target_raises("t1", "ZeroDivisionError", 1)
    \/ wrapper_output("t1", FALSE)
    \/ wrapper_return("t1")

SpecTag == InitTag /\ [][NextTag]_vars

-----------------------------------------------------------------------------
(* LoggerInfo used directly: two objects, every public method that changes
   or copies one. *)

InfoObjs == {"logger", "t1"}
InfoKeys == {"level", "args", "gpu"}
InfoValue == PyStr("x")

\* Arguments of update_record, as item sequences.
InfoUpdates ==
    << << <<"gpu", FALSE>> >>,
       << <<"function", FALSE>> >>,
       << <<"level", "WARN">>, <<"gpu", FALSE>> >>,
       << <<"gpu", TRUE>> >> >>

InitInfo ==
    /\ init_config \in DOMAIN InitConfigs
    /\ objs = [o \in ObjIds |->
                 IF o = "logger" THEN LoggerInfo(InitConfigs[init_config])
                 ELSE LoggerInfo(EmptyDict)]
    /\ wrappers = <<>>
    /\ inv = [t \in Threads |-> IdleInv]
    /\ persisted = <<>>
    /\ ncalls = 0
    /\ old = NoOldSink
    /\ sink = NoSink
    /\ wrap_exc = ""
    /\ last = NoCall
    /\ reader = NoReader
    /\ outs = NoOuts
    /\ field = NoField

\* o.set_field_value(key, value)
InfoSetFieldValue(o, key, value) ==
    /\ objs' = [objs EXCEPT ![o] = set_field_value(@, key, value)]
    /\ last' = [NoCall EXCEPT !.op = "set_field_value", !.obj = o, !.key = key,
                              !.value = value,
                              !.ret = set_field_value_ret(objs[o], key)]
    /\ UNCHANGED <<init_config, wrappers, inv, persisted, ncalls, old, sink, wrap_exc,
                   reader, outs, field>>

\* o.update_record(InfoUpdates[u])
InfoUpdateRecord(o, u) ==
    /\ LET upd == update_record(objs[o], InfoUpdates[u])
       IN  /\ objs' = [objs EXCEPT ![o] = upd.li]
           /\ last' = [NoCall EXCEPT !.op = "update_record", !.obj = o,
                                     !.raised = IF upd.raised THEN "KeyError" ELSE ""]
    /\ UNCHANGED <<init_config, wrappers, inv, persisted, ncalls, old, sink, wrap_exc,
                   reader, outs, field>>

\* o.reset_data()
InfoResetData(o) ==
    /\ objs' = [objs EXCEPT ![o] = reset_data(@)]
    /\ last' = [NoCall EXCEPT !.op = "reset_data", !.obj = o]
    /\ UNCHANGED <<init_config, wrappers, inv, persisted, ncalls, old, sink, wrap_exc,
                   reader, outs, field>>

\* n = o.copy(), the new object kept under the name n
InfoCopy(o, n) ==
    /\ o # n
    /\ LET made == copy(objs, o, n)
       IN  /\ objs' = made.heap
           /\ last' = [NoCall EXCEPT !.op = "copy", !.obj = o, !.ref = made.ref]
    /\ UNCHANGED <<init_config, wrappers, inv, persisted, ncalls, old, sink, wrap_exc,
                   reader, outs, field>>

NextInfo ==
    \/ \E o \in InfoObjs, key \in InfoKeys : InfoSetFieldValue(o, key, InfoValue)
    \/ \E o \in InfoObjs, u \in DOMAIN InfoUpdates : InfoUpdateRecord(o, u)
    \/ \E o \in InfoObjs : InfoResetData(o)
    \/ \E o \in InfoObjs, n \in InfoObjs : InfoCopy(o, n)

SpecInfo == InitInfo /\ [][NextInfo]_vars

-----------------------------------------------------------------------------
(* The rotating sink: SQLiteLog of src/src/logger/logger_output.py.  A
   database file is named by its index; sizes are counted in units. *)

MaxOutputs == 4
MaxInits == 2
MaxFileIndex == 2

\* Size of a database file once the logs table has been created in it.
NewTableSize == 1

\* db_max_size of the sink; len(str(value)) + 100 of a record; what one
\* INSERT adds to the size of the main database file (nothing while the
\* row stays in the write-ahead log or fits the last page).
SinkMaxSizes == {0, 2}
SinkEstimates == {1, 2}
SinkGrowths == {0, 2}

\* Every init may create one file more; output stops at MaxFileIndex.
FileIndexes == 0..(MaxFileIndex + MaxInits)
NoFile == [exists |-> FALSE, size |-> 0, table |-> FALSE, columns |-> {}, rows |-> <<>>]

\* What get returned: nothing yet.
NoGot ==
    [rule |-> 0, filter |-> 0, file |-> 0, exc |-> "", conds |-> <<>>, names |-> <<>>,
     rows |-> <<>>, data |-> <<>>]

\* SQLiteLog.__init__; the directory holds no file.  The fields after exc
\* record the history: the sum of the estimates of the records written to
\* the current file since init, the estimate of the last record, whether
\* init created the current file, the numbers of init calls, of output
\* calls, and of output calls since the last init; the number of
\* sqlite3.connect calls of the last call of init, output or get and the
\* largest number of connections open at once during it; the file init
\* ended on; what the last get executed and returned; the threads that
\* created the connection and the cursor the sink holds (sqlite3 objects
\* can be used only in the thread that created them), which the steps of
\* SpecConn follow: every other operation is run by MainThread.
MainThread == "main"

SQLiteLog(db_max_size, auto_close) ==
    [state       |-> "constructed",
     db_max_size |-> db_max_size,
     auto_close  |-> auto_close,
     db_size     |-> 0,
     db_index    |-> 0,
     db_file     |-> 0,
     field_info  |-> {},
     conn        |-> 0,
     conn_open   |-> FALSE,
     files       |-> [f \in FileIndexes |-> NoFile],
     exc         |-> "",
     written     |-> 0,
     estimate    |-> 0,
     created     |-> FALSE,
     inits       |-> 0,
     outputs     |-> 0,
     since       |-> 0,
     connects    |-> 0,
     peak        |-> 0,
     opened      |-> 0,
     got         |-> NoGot,
     conn_of     |-> MainThread,
     cursor_of   |-> MainThread]

\* The entry of init, output or get: nothing connected yet in this call.
Entered(s) == [s EXCEPT !.connects = 0, !.peak = IF s.conn_open THEN 1 ELSE 0]

\* __db_file_update
db_file_update(s) == [s EXCEPT !.db_file = s.db_index]

\* __check_db_size: the sink after the call and the value returned.
check_db_size(s) ==
    IF s.db_size >= s.db_max_size
    THEN LET sized == [s EXCEPT !.db_size = s.files[s.db_file].size]
         IN  [s |-> sized, ret |-> sized.db_size >= sized.db_max_size]
    ELSE [s |-> s, ret |-> FALSE]

\* __get_field_info: the columns are the fields of the LoggerInfo given to init.
get_field_info(s, logger_info) == [s EXCEPT !.field_info = DOMAIN get_field_value(logger_info)]

\* __get_last_db
RECURSIVE get_last_db(_)
get_last_db(s) ==
    IF s.db_file \in FileIndexes /\ s.files[s.db_file].exists
    THEN LET checked == check_db_size(s)
         IN  IF checked.ret
             THEN get_last_db(db_file_update([checked.s EXCEPT !.db_index = @ + 1]))
             ELSE checked.s
    ELSE s

\* __conn_db: sqlite3.connect opens a new connection, and creates the file
\* when it does not exist; the connection held before is dropped, not
\* closed, once the new one is there.
conn_db(s) ==
    [s EXCEPT !.conn = s.db_file,
              !.conn_open = TRUE,
              !.connects = @ + 1,
              !.peak = LET now == IF s.conn_open THEN 2 ELSE 1 IN IF @ < now THEN now ELSE @,
              !.files[s.db_file] = IF @.exists THEN @ ELSE [NoFile EXCEPT !.exists = TRUE]]

\* __create_table: CREATE TABLE IF NOT EXISTS with the columns of field_info.
create_table(s) ==
    [s EXCEPT !.files[s.conn] =
        IF @.table THEN @
        ELSE [@ EXCEPT !.table = TRUE, !.columns = s.field_info, !.size = NewTableSize]]

\* __auto_close_db
auto_close_db(s) == IF s.auto_close THEN [s EXCEPT !.conn_open = FALSE] ELSE s

\* __create_db
create_db(s) == auto_close_db(create_table(conn_db(s)))

\* __init_db that starts the scan at index 1.
init_db_from_one(s, logger_info) ==
    LET fresh   == db_file_update(get_field_info(
                        [Entered(s) EXCEPT !.db_size = 0, !.db_index = 1], logger_info))
        located == get_last_db(fresh)
        conn    == conn_db(located)
        sized   == [conn EXCEPT !.db_size = conn.files[conn.db_file].size]
        tabled  == IF sized.files[sized.conn].table THEN sized ELSE create_table(sized)
    IN  [auto_close_db(tabled) EXCEPT
            !.created = ~located.files[located.db_file].exists,
            !.opened = located.db_file]

\* __init_db
init_db(s, logger_info) ==
    LET fresh   == db_file_update(get_field_info(
                        [Entered(s) EXCEPT !.db_size = 0, !.db_index = 0], logger_info))
        located == get_last_db(fresh)
        conn    == conn_db(located)
        sized   == [conn EXCEPT !.db_size = conn.files[conn.db_file].size]
        tabled  == IF sized.files[sized.conn].table THEN sized ELSE create_table(sized)
    IN  [auto_close_db(tabled) EXCEPT
            !.created = ~located.files[located.db_file].exists,
            !.opened = located.db_file]

\* init(logger_info)
SQLiteLog_init(s, logger_info) ==
    [init_db(s, logger_info) EXCEPT !.state = "ready", !.exc = "", !.written = 0,
                                    !.estimate = 0, !.inits = @ + 1, !.since = 0]

\* __switch_db that advances the index and keeps the file name.
switch_db_same_file(s) ==
    LET checked == check_db_size(s)
    IN  IF checked.ret
        THEN auto_close_db(create_db([checked.s EXCEPT !.db_size = 0, !.db_index = @ + 1]))
        ELSE checked.s

\* __switch_db
switch_db(s) ==
    LET checked == check_db_size(s)
    IN  IF checked.ret
        THEN auto_close_db(create_db(db_file_update(
                [checked.s EXCEPT !.db_size = 0, !.db_index = @ + 1])))
        ELSE checked.s

\* __insert_data: the INSERT names the fields of the record; sqlite3 raises
\* OperationalError when the logs table has no column of that name.  grow
\* is what the row adds to the size of the file.
insert_data(s, data, grow) ==
    LET conn == conn_db(s)
        file == conn.files[conn.conn]
        rec  == get_field_value(data)
    IN  IF ~file.table \/ ~(DOMAIN rec \subseteq file.columns)
        THEN [s |-> conn, exc |-> "OperationalError"]
        ELSE [s |-> auto_close_db(
                        [conn EXCEPT !.files[conn.conn].rows = Append(@, rec),
                                     !.files[conn.conn].size = @ + grow]),
              exc |-> ""]

\* output(data): estimate is len(str(value)) + 100.
SQLiteLog_output(s, data, estimate, grow) ==
    LET inserted == insert_data(Entered(s), data, grow)
    IN  IF inserted.exc # ""
        THEN [inserted.s EXCEPT !.exc = inserted.exc, !.estimate = estimate,
                                !.outputs = @ + 1, !.since = @ + 1]
        ELSE LET switched == switch_db([inserted.s EXCEPT !.db_size = @ + estimate])
             IN  [switched EXCEPT
                     !.exc = "",
                     !.estimate = estimate,
                     !.outputs = @ + 1,
                     !.since = @ + 1,
                     !.written = IF switched.db_index = s.db_index
                                 THEN s.written + estimate ELSE 0]

\* SQLCondition, the comparators get documents.
SQLCondition == {"=", ">", "<", ">=", "<=", "!=", "LIKE"}

\* The rules get is called with, {field_name: {condition: value}} in the
\* order of iteration: no rule, {"level": {"=": "LOG"}},
\* {"level": {"=": "'LOG'"}}, {"level": {"IS NOT": "NULL"}},
\* {"level": {"= 'x' OR": 1}},
\* {"level": {"!=": "'ERROR'"}, "function_name": {"=": "'division'"}}.
Rules ==
    << <<>>,
       << <<"level", "=", PyStr("LOG")>> >>,
       << <<"level", "=", PyStr("'LOG'")>> >>,
       << <<"level", "IS NOT", PyStr("NULL")>> >>,
       << <<"level", "= 'x' OR", PyInt("1")>> >>,
       << <<"level", "!=", PyStr("'ERROR'")>>,
          <<"function_name", "=", PyStr("'division'")>> >> >>

\* get, lines 195-199: f"{field_name} {condition} {value}" of every
\* condition of the rule; the value is interpolated as str(value).
sql_rule(rule) ==
    [n \in DOMAIN rule |->
        [field_name |-> rule[n][1], condition |-> rule[n][2], value |-> Str(rule[n][3])]]

\* How SQLite reads the text interpolated for a value: a quoted text is a
\* string, NULL and digits are themselves, any other word is a column name.
SqlOperand(text) ==
    CASE text = "'LOG'"      -> [kind |-> "string", text |-> "LOG"]
      [] text = "'ERROR'"    -> [kind |-> "string", text |-> "ERROR"]
      [] text = "'division'" -> [kind |-> "string", text |-> "division"]
      [] text = "NULL"       -> [kind |-> "null", text |-> ""]
      [] text = "1"          -> [kind |-> "number", text |-> "1"]
      [] OTHER               -> [kind |-> "column", text |-> text]

\* The value of a column in a stored row: NULL where the record had no
\* such field.
SqlColumn(rec, name) == IF name \in DOMAIN rec THEN [kind |-> "string", text |-> rec[name][2]]
                        ELSE [kind |-> "null", text |-> ""]

\* The columns a condition names that the table must have.
SqlColumnsOf(cond) ==
    {cond.field_name} \cup
        (IF SqlOperand(cond.value).kind = "column" THEN {SqlOperand(cond.value).text} ELSE {})

\* The value of the right-hand side of a condition in a row.
SqlValue(cond, rec) ==
    IF SqlOperand(cond.value).kind = "column"
    THEN SqlColumn(rec, SqlOperand(cond.value).text)
    ELSE SqlOperand(cond.value)

\* SQLite evaluating "field_name condition value" on a stored row, for the
\* condition texts of Rules.
SqlHolds(cond, rec) ==
    LET left  == SqlColumn(rec, cond.field_name)
        right == SqlValue(cond, rec)
    IN  CASE cond.condition = "="  -> left.kind # "null" /\ right.kind # "null" /\ left = right
          [] cond.condition = "!=" -> left.kind # "null" /\ right.kind # "null" /\ left # right
          [] cond.condition = "IS NOT" -> left # right
          [] cond.condition = "= 'x' OR" ->
                 \/ left = [kind |-> "string", text |-> "x"]
                 \/ right.kind = "number" /\ right.text # "0"
          [] OTHER -> FALSE

\* The rows of a file that satisfy every condition, as <<id, record>>.
RECURSIVE SqlSelect(_, _, _)
SqlSelect(rows, conds, n) ==
    IF n > Len(rows) THEN <<>>
    ELSE (IF \A c \in DOMAIN conds : SqlHolds(conds[c], rows[n])
          THEN << <<n, rows[n]>> >> ELSE <<>>)
         \o SqlSelect(rows, conds, n + 1)

\* The filters get is called with: none, ["level", "function_name"],
\* ["id", "level"].
Filters == << <<>>, <<"level", "function_name">>, <<"id", "level">> >>

\* The keys of FIELD_DEFAULT_VALUE in the order of the dictionary, which is
\* the order of the keys of every field_value and of field_info.
FieldOrder ==
    << "level", "timestamp", "message", "tag", "function_name", "args", "kwargs",
       "function_time", "function_return", "error_type", "traceback", "thread_name",
       "thread_id", "process_id", "computer", "cpu", "memory", "gpu", "host" >>

\* The keys of field_info as a list.
FieldInfoKeys(s) ==
    LET Active(n) == n \in s.field_info
    IN  SelectSeq(FieldOrder, Active)

\* The tuple fetched for a stored row: one value per column the SELECT
\* names.
SqlTuple(row, columns) ==
    [c \in DOMAIN columns |->
        IF columns[c] = "id" THEN [kind |-> "integer", text |-> ToString(row[1])]
        ELSE SqlColumn(row[2], columns[c])]

\* get(filter=Filters[f], rule=Rules[r]): with a filter the names returned
\* are ["id"] + filter and the SELECT names the filter; without one both
\* are id and the fields of field_info.  The rule is rendered into the
\* WHERE clause, the statement is executed on a new connection to db_file.
get(s, f, r) ==
    LET conn  == conn_db(Entered(s))
        file  == conn.files[conn.conn]
        conds == sql_rule(Rules[r])
        field_name == IF Filters[f] # <<>> THEN <<"id">> \o Filters[f]
                      ELSE <<"id">> \o FieldInfoKeys(s)
        selected   == IF Filters[f] # <<>> THEN Filters[f] ELSE field_name
        exc   == IF \/ ~file.table
                    \/ \E c \in DOMAIN selected : selected[c] \notin ({"id"} \cup file.columns)
                    \/ \E c \in DOMAIN conds : ~(SqlColumnsOf(conds[c]) \subseteq file.columns)
                 THEN "OperationalError" ELSE ""
        rows  == SqlSelect(file.rows, conds, 1)
    IN  IF exc # ""
        THEN [conn EXCEPT !.got = [rule |-> r, filter |-> f, file |-> conn.conn, exc |-> exc,
                                   conds |-> conds, names |-> <<>>, rows |-> <<>>,
                                   data |-> <<>>]]
        ELSE [auto_close_db(conn) EXCEPT
                 !.got = [rule |-> r, filter |-> f, file |-> conn.conn, exc |-> "",
                          conds |-> conds, names |-> field_name, rows |-> rows,
                          data |-> [k \in DOMAIN rows |-> SqlTuple(rows[k], selected)]]]

\* The configs the Logger and the sink are given.
SinkConfigs == {2, 4}

InitSink ==
    /\ init_config \in SinkConfigs
    /\ objs = [o \in ObjIds |->
                 IF o = "logger"
                 THEN LoggerInfo(LoggerInfo(InitConfigs[init_config]).config)
                 ELSE LoggerInfo(EmptyDict)]
    /\ wrappers = <<>>
    /\ inv = [t \in Threads |-> IdleInv]
    /\ persisted = <<>>
    /\ ncalls = 0
    /\ old = NoOldSink
    /\ \E m \in SinkMaxSizes, c \in BOOLEAN : sink = SQLiteLog(m, c)
    /\ wrap_exc = ""
    /\ last = NoCall
    /\ reader = NoReader
    /\ outs = NoOuts
    /\ field = NoField

\* sink.init(logger_info) with the LoggerInfo the Logger was constructed
\* from; called again, it is a restart on the files left in the directory.
SinkInit ==
    /\ sink.inits < MaxInits
    /\ sink' = SQLiteLog_init(sink, LoggerInfo(InitConfigs[init_config]))
    /\ UNCHANGED <<objs, init_config, wrappers, inv, persisted, ncalls, old, wrap_exc, last,
                   reader, outs, field>>

\* Logger.try_except on a function with the documentation Docs[d]: the tags
\* are applied to the LoggerInfo of the Logger.
SinkWrap(d) ==
    /\ LET parsed == parse_func_doc(objs["logger"], Docs[d])
       IN  /\ objs' = [objs EXCEPT !["logger"] = parsed.li]
           /\ wrap_exc' = parsed.exc
    /\ UNCHANGED <<init_config, wrappers, inv, persisted, ncalls, old, sink, last, reader,
                   outs, field>>

\* The wrapper hands the record of an invocation, a copy of the LoggerInfo
\* of the Logger, to sink.output.
SinkOutput(estimate, grow) ==
    /\ sink.state = "ready"
    /\ sink.outputs < MaxOutputs
    /\ sink.db_index < MaxFileIndex
    /\ LET data == copy(objs, "logger", "t1").heap["t1"]
       IN  sink' = SQLiteLog_output(sink, data, estimate, grow)
    /\ UNCHANGED <<objs, init_config, wrappers, inv, persisted, ncalls, old, wrap_exc, last,
                   reader, outs, field>>

\* The record of division(1, 2): the fields the wrapper sets.
DivisionRecord(li) ==
    set_field_value(
        set_field_value(
            set_field_value(
                set_field_value(li, "level", PyStr("LOG")),
                "function_name", PyStr("division")),
            "args", PyStr("(1, 2)")),
        "function_return", PyStr("0.5"))

\* sink.output of the record of division(1, 2).
SinkOutputDivision(estimate, grow) ==
    /\ sink.state = "ready"
    /\ sink.outputs < MaxOutputs
    /\ sink.db_index < MaxFileIndex
    /\ LET data == DivisionRecord(copy(objs, "logger", "t1").heap["t1"])
       IN  sink' = SQLiteLog_output(sink, data, estimate, grow)
    /\ UNCHANGED <<objs, init_config, wrappers, inv, persisted, ncalls, old, wrap_exc, last,
                   reader, outs, field>>

\* sink.get(filter=Filters[f], rule=Rules[r])
SinkGet(f, r) ==
    /\ sink.state = "ready"
    /\ sink' = get(sink, f, r)
    /\ UNCHANGED <<objs, init_config, wrappers, inv, persisted, ncalls, old, wrap_exc, last,
                   reader, outs, field>>

NextGet ==
    \/ SinkInit
    \/ \E e \in SinkEstimates, g \in SinkGrowths : SinkOutputDivision(e, g)
    \/ \E f \in DOMAIN Filters, r \in DOMAIN Rules : SinkGet(f, r)

SpecGet == InitSink /\ [][NextGet]_vars

NextSink ==
    \/ SinkInit
    \/ \E d \in {2, 4} : SinkWrap(d)
    \/ \E e \in SinkEstimates, g \in SinkGrowths : SinkOutput(e, g)

SpecSink == InitSink /\ [][NextSink]_vars

\* sink.init(logger_info) with a LoggerInfo of the configuration c, which
\* need not be the one the Logger was constructed from: the two are given
\* to the two constructors separately.
SinkInitWith(c) ==
    /\ sink.inits < MaxInits
    /\ sink' = SQLiteLog_init(sink, LoggerInfo(InitConfigs[c]))
    /\ UNCHANGED <<objs, init_config, wrappers, inv, persisted, ncalls, old, wrap_exc, last,
                   reader, outs, field>>

NextPair ==
    \/ \E c \in SinkConfigs : SinkInitWith(c)
    \/ \E e \in SinkEstimates, g \in SinkGrowths : SinkOutput(e, g)

SpecPair == InitSink /\ [][NextPair]_vars

-----------------------------------------------------------------------------
(* ReadLog of src/src/sqlite_log/sqlite_log.py and of src/sqlite_log.py (the
   two differ in the name of the level column only).  The folder holds the
   files log_1.db .. log_<files>.db the older sink has written. *)

MaxReadFiles == 3
MaxNexts == 2
MaxQueries == 2

\* What the queries of ReadLog select: get_data(type) with type "LOG" or
\* "ERROR", get_logs, get_error, get_info.
ReadQueries == {"get_data_LOG", "get_data_ERROR", "get_logs", "get_error", "get_info"}

\* The rows of file log_<i>.db: i rows of level LOG and one of level ERROR,
\* each marked with the file it is in.
ReadRows(i) == [n \in 1..(i + 1) |-> [level |-> IF n <= i THEN "LOG" ELSE "ERROR", file |-> i]]

NoResult == [query |-> "", file |-> 0, rows |-> <<>>, exc |-> ""]

\* ReadLog.__init__(db_folder, db_index): exit(-1) when the file does not
\* exist, a connection to it otherwise.
ReadLog(files, db_index) ==
    [state    |-> IF db_index > files THEN "exited" ELSE "open",
     files    |-> files,
     db_index |-> db_index,
     start    |-> db_index,
     conn     |-> IF db_index > files THEN 0 ELSE db_index,
     nexts    |-> 0,
     queries  |-> 0,
     result   |-> NoResult]

\* The rows a query selects in the file of the connection.
RECURSIVE ReadSelect(_, _)
ReadSelect(rows, level) ==
    IF rows = <<>> THEN <<>>
    ELSE (IF level = "" \/ Head(rows).level = level THEN <<Head(rows)>> ELSE <<>>)
         \o ReadSelect(Tail(rows), level)

\* get_data(type), get_logs, get_error, get_info: the statement runs on
\* self.conn; on a closed connection sqlite3 raises ProgrammingError, which
\* the method does not catch.
read_query(r, query) ==
    LET level == CASE query \in {"get_data_LOG", "get_logs"} -> "LOG"
                   [] query \in {"get_data_ERROR", "get_error"} -> "ERROR"
                   [] OTHER -> ""
    IN  [r EXCEPT !.queries = @ + 1,
                  !.result =
                     IF r.state = "closed"
                     THEN [NoResult EXCEPT !.query = query, !.exc = "ProgrammingError"]
                     ELSE [query |-> query, file |-> r.conn, exc |-> "",
                           rows |-> IF query = "get_info" THEN <<[level |-> "", file |-> r.conn]>>
                                    ELSE ReadSelect(ReadRows(r.conn), level)]]

\* next_db: the connection is closed and a connection is made to
\* f"{db_name}_{db_index}.db", with the db_index of the constructor.
next_db(r) ==
    [r EXCEPT !.state = "open", !.conn = r.db_index, !.nexts = @ + 1, !.result = NoResult]

\* close
read_close(r) == [r EXCEPT !.state = "closed"]

InitRead ==
    /\ init_config = 1
    /\ objs = [o \in ObjIds |-> LoggerInfo(EmptyDict)]
    /\ wrappers = <<>>
    /\ inv = [t \in Threads |-> IdleInv]
    /\ persisted = <<>>
    /\ ncalls = 0
    /\ old = NoOldSink
    /\ sink = NoSink
    /\ wrap_exc = ""
    /\ last = NoCall
    /\ \E files \in 1..MaxReadFiles, i \in 1..MaxReadFiles : reader = ReadLog(files, i)
    /\ outs = NoOuts
    /\ field = NoField

ReadQuery(query) ==
    /\ reader.state \in {"open", "closed"}
    /\ reader.queries < MaxQueries
    /\ reader' = read_query(reader, query)
    /\ UNCHANGED <<objs, init_config, wrappers, inv, persisted, ncalls, old, sink, wrap_exc,
                   last, outs, field>>

\* next_db is called while a further file exists.
ReadNextDb ==
    /\ reader.state \in {"open", "closed"}
    /\ reader.nexts < MaxNexts
    /\ reader.start + reader.nexts < reader.files
    /\ reader' = next_db(reader)
    /\ UNCHANGED <<objs, init_config, wrappers, inv, persisted, ncalls, old, sink, wrap_exc,
                   last, outs, field>>

ReadClose ==
    /\ reader.state = "open"
    /\ reader' = read_close(reader)
    /\ UNCHANGED <<objs, init_config, wrappers, inv, persisted, ncalls, old, sink, wrap_exc,
                   last, outs, field>>

NextRead ==
    \/ \E q \in ReadQueries : ReadQuery(q)
    \/ ReadNextDb
    \/ ReadClose

SpecRead == InitRead /\ [][NextRead]_vars

-----------------------------------------------------------------------------
(* Two threads inside output of one rotating sink.  SQLiteLog holds no
   lock; a thread can be suspended between the statements of output and of
   __switch_db, and between the read and the write of `+=`. *)

InitRace ==
    /\ init_config = 2
    /\ objs = [o \in ObjIds |->
                 IF o = "logger"
                 THEN LoggerInfo(LoggerInfo(InitConfigs[init_config]).config)
                 ELSE LoggerInfo(EmptyDict)]
    /\ wrappers = <<>>
    /\ inv = [t \in Threads |-> IdleInv]
    /\ persisted = <<>>
    /\ ncalls = 0
    /\ old = NoOldSink
    /\ \E m \in SinkMaxSizes, c \in BOOLEAN :
          sink = SQLiteLog_init(SQLiteLog(m, c), LoggerInfo(InitConfigs[init_config]))
    /\ wrap_exc = ""
    /\ last = NoCall
    /\ reader = NoReader
    /\ outs = NoOuts
    /\ field = NoField

\* output, line 171: len_value = self.__insert_data(data).
OutInsert(t, estimate, grow) ==
    /\ outs[t].pc = "idle"
    /\ sink.outputs < MaxOutputs
    /\ sink.db_index < MaxFileIndex
    /\ LET data == copy(objs, "logger", t).heap[t]
           inserted == insert_data(Entered(sink), data, grow)
       IN  /\ sink' = [inserted.s EXCEPT !.exc = inserted.exc, !.estimate = estimate,
                                         !.outputs = @ + 1, !.since = @ + 1]
           /\ outs' = [outs EXCEPT ![t] =
                         IF inserted.exc # "" THEN IdleOut
                         ELSE [IdleOut EXCEPT !.pc = "inserted", !.estimate = estimate]]
    /\ UNCHANGED <<objs, init_config, wrappers, inv, persisted, ncalls, old, wrap_exc, last,
                   reader, field>>

\* output, line 173: the read of self.__db_size in `+=`.
OutLoad(t) ==
    /\ outs[t].pc = "inserted"
    /\ outs' = [outs EXCEPT ![t] = [@ EXCEPT !.pc = "loaded", !.loaded = sink.db_size]]
    /\ UNCHANGED <<objs, init_config, wrappers, inv, persisted, ncalls, old, sink, wrap_exc,
                   last, reader, field>>

\* output, line 173: the write of self.__db_size in `+=`.
OutStore(t) ==
    /\ outs[t].pc = "loaded"
    /\ sink' = [sink EXCEPT !.db_size = outs[t].loaded + outs[t].estimate]
    /\ outs' = [outs EXCEPT ![t] = [@ EXCEPT !.pc = "stored"]]
    /\ UNCHANGED <<objs, init_config, wrappers, inv, persisted, ncalls, old, wrap_exc, last,
                   reader, field>>

\* __switch_db, line 148: if self.__check_db_size().
OutCheck(t) ==
    /\ outs[t].pc = "stored"
    /\ LET checked == check_db_size(sink)
       IN  /\ sink' = checked.s
           /\ outs' = [outs EXCEPT ![t] =
                         IF checked.ret THEN [@ EXCEPT !.pc = "switching"]
                         ELSE IdleOut]
    /\ UNCHANGED <<objs, init_config, wrappers, inv, persisted, ncalls, old, wrap_exc, last,
                   reader, field>>

\* __switch_db, lines 149-150: the estimate is reset, the index incremented.
OutAdvance(t) ==
    /\ outs[t].pc = "switching"
    /\ sink' = [sink EXCEPT !.db_size = 0, !.db_index = @ + 1]
    /\ outs' = [outs EXCEPT ![t] = [@ EXCEPT !.pc = "advanced"]]
    /\ UNCHANGED <<objs, init_config, wrappers, inv, persisted, ncalls, old, wrap_exc, last,
                   reader, field>>

\* __switch_db, lines 151-153: the file name follows the index, the file is
\* created with its table.
OutCreate(t) ==
    /\ outs[t].pc = "advanced"
    /\ sink' = auto_close_db(create_db(db_file_update(sink)))
    /\ outs' = [outs EXCEPT ![t] = IdleOut]
    /\ UNCHANGED <<objs, init_config, wrappers, inv, persisted, ncalls, old, wrap_exc, last,
                   reader, field>>

NextRace ==
    \/ \E t \in Threads, e \in SinkEstimates, g \in SinkGrowths : OutInsert(t, e, g)
    \/ \E t \in Threads : OutLoad(t)
    \/ \E t \in Threads : OutStore(t)
    \/ \E t \in Threads : OutCheck(t)
    \/ \E t \in Threads : OutAdvance(t)
    \/ \E t \in Threads : OutCreate(t)

SpecRace == InitRace /\ [][NextRace]_vars

-----------------------------------------------------------------------------
(* Two threads inside __insert_data of one rotating sink.  The connection
   and the cursor are attributes of the sink, rebound by every __conn_db;
   a thread can be suspended between any two statements.  sqlite3 raises
   ProgrammingError when an object is used in a thread other than the one
   that created it.  The threshold is the default one, which no file
   reaches here. *)

\* __MAX_SIZE, the default db_max_size, in the units of the estimates.
DefaultMaxSize == 100

\* A thread outside output: the connection it created last (open, rows
\* inserted and not committed), the exception that ended its last write,
\* the number of writes it began.
ConnIdle == [pc |-> "idle", open |-> FALSE, pending |-> 0, exc |-> "", calls |-> 0]

InitConn ==
    /\ init_config = 2
    /\ objs = [o \in ObjIds |->
                 IF o = "logger"
                 THEN LoggerInfo(LoggerInfo(InitConfigs[init_config]).config)
                 ELSE LoggerInfo(EmptyDict)]
    /\ wrappers = <<>>
    /\ inv = [t \in Threads |-> IdleInv]
    /\ persisted = <<>>
    /\ ncalls = 0
    /\ old = NoOldSink
    /\ \E c \in BOOLEAN :
          sink = SQLiteLog_init(SQLiteLog(DefaultMaxSize, c), LoggerInfo(InitConfigs[init_config]))
    /\ wrap_exc = ""
    /\ last = NoCall
    /\ reader = NoReader
    /\ outs = [t \in Threads |-> ConnIdle]
    /\ field = NoField

\* The write of thread t ends with the exception exc raised out of output.
ConnRaise(t, exc) == [outs EXCEPT ![t] = [@ EXCEPT !.pc = "idle", !.exc = exc]]

\* __conn_db, line 105: self.__conn = sqlite3.connect(self.__db_file).  The
\* connection t created before is dropped with what it had not committed.
ConnConnect(t) ==
    /\ outs[t].pc = "idle"
    /\ sink.outputs < MaxOutputs
    /\ sink' = [conn_db(Entered(sink)) EXCEPT !.conn_of = t, !.outputs = @ + 1,
                                              !.since = @ + 1, !.exc = ""]
    /\ outs' = [outs EXCEPT ![t] = [pc |-> "connected", open |-> TRUE, pending |-> 0,
                                    exc |-> "", calls |-> @.calls + 1]]
    /\ UNCHANGED <<objs, init_config, wrappers, inv, persisted, ncalls, old, wrap_exc, last,
                   reader, field>>

\* __conn_db, line 106: self.__cursor = self.__conn.cursor(), on the
\* connection the sink holds now.
ConnCursor(t) ==
    /\ outs[t].pc = "connected"
    /\ IF sink.conn_of # t
       THEN /\ outs' = ConnRaise(t, "ProgrammingError")
            /\ sink' = [sink EXCEPT !.exc = "ProgrammingError"]
       ELSE /\ outs' = [outs EXCEPT ![t] = [@ EXCEPT !.pc = "cursor"]]
            /\ sink' = [sink EXCEPT !.cursor_of = t]
    /\ UNCHANGED <<objs, init_config, wrappers, inv, persisted, ncalls, old, wrap_exc, last,
                   reader, field>>

\* Another connection holds the write lock of the database: it has
\* inserted a row and not committed it.
LockedBy(t) == {u \in Threads \ {t} : outs[u].open /\ outs[u].pending > 0}

\* __insert_data, line 163: self.__cursor.execute(sql, value), on the
\* cursor the sink holds now.  The statement waits for a writer that is
\* about to commit; it fails when the lock is held by an abandoned
\* connection.
ConnExecute(t) ==
    /\ outs[t].pc = "cursor"
    /\ \A u \in LockedBy(t) : outs[u].pc # "executed"
    /\ LET file == sink.files[sink.db_file]
           rec  == get_field_value(copy(objs, "logger", t).heap[t])
           exc  == IF sink.cursor_of # t THEN "ProgrammingError"
                   ELSE IF ~file.table \/ ~(DOMAIN rec \subseteq file.columns)
                           \/ LockedBy(t) # {}
                   THEN "OperationalError" ELSE ""
       IN  IF exc # ""
           THEN /\ outs' = ConnRaise(t, exc)
                /\ sink' = [sink EXCEPT !.exc = exc]
           ELSE /\ outs' = [outs EXCEPT ![t] = [@ EXCEPT !.pc = "executed", !.pending = 1]]
                /\ sink' = sink
    /\ UNCHANGED <<objs, init_config, wrappers, inv, persisted, ncalls, old, wrap_exc, last,
                   reader, field>>

\* __insert_data, line 164: self.__conn.commit(), on the connection the
\* sink holds now; grow is what the row adds to the size of the file.
ConnCommit(t, grow) ==
    /\ outs[t].pc = "executed"
    /\ IF sink.conn_of # t
       THEN /\ outs' = ConnRaise(t, "ProgrammingError")
            /\ sink' = [sink EXCEPT !.exc = "ProgrammingError"]
       ELSE LET rec == get_field_value(copy(objs, "logger", t).heap[t])
            IN  /\ outs' = [outs EXCEPT ![t] = [@ EXCEPT !.pc = "committed", !.pending = 0]]
                /\ sink' = [sink EXCEPT !.files[sink.db_file].rows = Append(@, rec),
                                        !.files[sink.db_file].size = @ + grow]
    /\ UNCHANGED <<objs, init_config, wrappers, inv, persisted, ncalls, old, wrap_exc, last,
                   reader, field>>

\* __insert_data, line 165: __auto_close_db closes the connection the sink
\* holds now; then output adds the estimate and calls __switch_db.
ConnClose(t, estimate) ==
    /\ outs[t].pc = "committed"
    /\ IF sink.auto_close /\ sink.conn_of # t
       THEN /\ outs' = ConnRaise(t, "ProgrammingError")
            /\ sink' = [sink EXCEPT !.exc = "ProgrammingError"]
       ELSE /\ outs' = [outs EXCEPT ![t] = [@ EXCEPT !.pc = "idle",
                                                     !.open = ~sink.auto_close]]
            /\ sink' = [switch_db([auto_close_db(sink) EXCEPT !.db_size = @ + estimate])
                           EXCEPT !.estimate = estimate, !.written = @ + estimate]
    /\ UNCHANGED <<objs, init_config, wrappers, inv, persisted, ncalls, old, wrap_exc, last,
                   reader, field>>

\* The interpreter collects the connection of t that nothing refers to any
\* more: it is closed and what it had not committed is rolled back.
ConnCollect(t) ==
    /\ outs[t].pc = "idle"
    /\ outs[t].open
    /\ sink.conn_of # t
    /\ sink.cursor_of # t
    /\ outs' = [outs EXCEPT ![t] = [@ EXCEPT !.open = FALSE, !.pending = 0]]
    /\ UNCHANGED <<objs, init_config, wrappers, inv, persisted, ncalls, old, sink, wrap_exc,
                   last, reader, field>>

NextConn ==
    \/ \E t \in Threads : ConnConnect(t)
    \/ \E t \in Threads : ConnCursor(t)
    \/ \E t \in Threads : ConnExecute(t)
    \/ \E t \in Threads, g \in SinkGrowths : ConnCommit(t, g)
    \/ \E t \in Threads, e \in SinkEstimates : ConnClose(t, e)
    \/ \E t \in Threads : ConnCollect(t)

SpecConn == InitConn /\ [][NextConn]_vars

-----------------------------------------------------------------------------
(* LoggerField of src/src/sqlite_log/sqlite_log.py *)

\* LOGGER_TABLE_INFO: LoggerType(field_name, sql_type), in order.
LOGGER_TABLE_INFO ==
    << [field_name |-> "system_info",          sql_type |-> "TEXT"],
       [field_name |-> "host_info",            sql_type |-> "TEXT"],
       [field_name |-> "timestamp",            sql_type |-> "TEXT"],
       [field_name |-> "level",                sql_type |-> "TEXT"],
       [field_name |-> "tag",                  sql_type |-> "TEXT"],
       [field_name |-> "function_file_name",   sql_type |-> "TEXT"],
       [field_name |-> "function_line_number", sql_type |-> "INTEGER"],
       [field_name |-> "function_name",        sql_type |-> "TEXT"],
       [field_name |-> "args",                 sql_type |-> "TEXT"],
       [field_name |-> "kwargs",               sql_type |-> "TEXT"],
       [field_name |-> "thread_name",          sql_type |-> "TEXT"],
       [field_name |-> "thread_id",            sql_type |-> "INTEGER"],
       [field_name |-> "process_id",           sql_type |-> "INTEGER"],
       [field_name |-> "message",              sql_type |-> "TEXT"],
       [field_name |-> "extra_info",           sql_type |-> "TEXT"],
       [field_name |-> "function_time",        sql_type |-> "REAL"],
       [field_name |-> "traceback",            sql_type |-> "TEXT"] >>

\* The arguments of LoggerField(...).
FieldFlags ==
    [is_system_info : BOOLEAN, is_host_info : BOOLEAN, is_tag : BOOLEAN,
     is_function_info : BOOLEAN, is_thread_info : BOOLEAN, is_traceback : BOOLEAN]

\* An element of the set remove_fields: remove_fields.add("name") adds a
\* str, remove_fields.add(("a", "b")) adds the tuple as one element.
AddedStr(name) == [type |-> "str", items |-> <<name>>]
AddedTuple(names) == [type |-> "tuple", items |-> names]

\* LoggerField.__init__, lines 135-155: the set remove_fields.
remove_fields(flags) ==
    (IF ~flags.is_system_info THEN {AddedStr("system_info")} ELSE {})
    \cup (IF ~flags.is_host_info THEN {AddedStr("host_info")} ELSE {})
    \cup (IF ~flags.is_tag THEN {AddedStr("tag")} ELSE {})
    \cup (IF ~flags.is_function_info
          THEN {AddedTuple(<<"function_file_name", "function_line_number",
                             "function_name", "args", "kwargs">>)}
          ELSE {})
    \cup (IF ~flags.is_thread_info
          THEN {AddedTuple(<<"thread_name", "thread_id", "process_id">>)}
          ELSE {})
    \cup (IF ~flags.is_traceback THEN {AddedStr("traceback")} ELSE {})

\* `field_name not in remove_fields`: a str is equal to a str only.
NotIn(name, removed) == \A e \in removed : ~(e.type = "str" /\ e.items[1] = name)

\* LoggerField.__init__, lines 157-161: the list comprehension.
LoggerField(flags) ==
    LET removed == remove_fields(flags)
        Keep(f) == NotIn(f.field_name, removed)
    IN  SelectSeq(LOGGER_TABLE_INFO, Keep)

\* LoggerField.field_name
field_name(info) == [n \in DOMAIN info |-> info[n].field_name]

InitField ==
    /\ init_config = 1
    /\ objs = [o \in ObjIds |-> LoggerInfo(EmptyDict)]
    /\ wrappers = <<>>
    /\ inv = [t \in Threads |-> IdleInv]
    /\ persisted = <<>>
    /\ ncalls = 0
    /\ old = NoOldSink
    /\ sink = NoSink
    /\ wrap_exc = ""
    /\ last = NoCall
    /\ reader = NoReader
    /\ outs = NoOuts
    /\ \E flags \in FieldFlags :
          field = [state |-> "arguments", flags |-> flags, info |-> <<>>, names |-> <<>>]

\* logger_field = LoggerField(**flags)
FieldConstruct ==
    /\ field.state = "arguments"
    /\ field' = [field EXCEPT !.state = "constructed", !.info = LoggerField(field.flags)]
    /\ UNCHANGED <<objs, init_config, wrappers, inv, persisted, ncalls, old, sink, wrap_exc,
                   last, reader, outs>>

\* logger_field.field_name()
FieldName ==
    /\ field.state = "constructed"
    /\ field' = [field EXCEPT !.state = "named", !.names = field_name(field.info)]
    /\ UNCHANGED <<objs, init_config, wrappers, inv, persisted, ncalls, old, sink, wrap_exc,
                   last, reader, outs>>

NextField ==
    \/ FieldConstruct
    \/ FieldName

SpecField == InitField /\ [][NextField]_vars

-----------------------------------------------------------------------------
(* Properties of the Logger wrapper *)

Finished(t) == inv[t].pc = "done" /\ inv[t].target.kind # "none"
TargetRaised(t) == inv[t].target.kind = "raise"
Closure(t) == wrappers[inv[t].w]
RowsOf(id) == {k \in DOMAIN persisted : persisted[k].by = id}
ErrorText(t) == PyStr("Error return function error: " \o inv[t].ercall.msg)

\* The exception classes outside Exception met while the target and
\* error_return ran.
TargetEscapes(t) == TargetRaised(t) /\ inv[t].target.exc \notin ExceptionClasses
ErrorReturnEscapes(t) ==
    inv[t].ercalled /\ inv[t].ercall.exc # "" /\ inv[t].ercall.exc \notin ExceptionClasses

\* C1 (as stated): whatever exception the target raises, the wrapped call
\* returns a value to its caller and never raises.
C1_NeverRaises ==
    \A t \in Threads :
        (Finished(t) /\ TargetRaised(t)) => inv[t].outcome.kind = "returned"

\* C1 (amended): every exception of the target that derives from Exception
\* is absorbed, the call returns a value; the call raises only an exception
\* outside Exception (SystemExit, KeyboardInterrupt), raised by the target
\* or by a callable error_return, and then raises exactly that one.
C1_AbsorbsExceptions ==
    \A t \in Threads :
        (Finished(t) /\ TargetRaised(t)) =>
            /\ (~TargetEscapes(t) /\ ~ErrorReturnEscapes(t)) => inv[t].outcome.kind = "returned"
            /\ TargetEscapes(t) => inv[t].outcome = Raised(inv[t].target.exc)
            /\ ErrorReturnEscapes(t) => inv[t].outcome = Raised(inv[t].ercall.exc)

C1_Witness ==
    \E t \in Threads :
        /\ Finished(t)
        /\ inv[t].target.exc = "ZeroDivisionError"
        /\ inv[t].outcome.kind = "returned"

\* C2: if the target raises (no tag overrides on any wrapped function, the
\* function category enabled, the write accepted by the sink), exactly one
\* record is persisted for the invocation, its level is ERROR and its
\* traceback is non-empty.
C2_ErrorRecord ==
    \A t \in Threads :
        ( /\ inv[t].pc \in {"recorded", "done"}
          /\ TargetRaised(t)
          /\ inv[t].target.exc \in ExceptionClasses
          /\ \A i \in DOMAIN wrappers : Docs[wrappers[i].doc] = NoDoc
          /\ Closure(t).is_record["function"] = TRUE
          /\ inv[t].sink = "ok" ) =>
            /\ Cardinality(RowsOf(inv[t].id)) = 1
            /\ \A k \in RowsOf(inv[t].id) :
                /\ persisted[k].rec["level"] = PyStr("ERROR")
                /\ persisted[k].rec["traceback"] # PyStr("")

\* C3 (as stated): if the target raises, the wrapped call returns
\* error_return itself when it is not callable and the result of calling
\* error_return() when it is callable.
C3_ReturnsErrorReturn ==
    \A t \in Threads :
        (Finished(t) /\ TargetRaised(t)) =>
            /\ ~Closure(t).error_return.callable =>
                    inv[t].outcome = Returned(Closure(t).error_return.value)
            /\ Closure(t).error_return.callable =>
                    /\ inv[t].ercalled
                    /\ inv[t].ercall.exc = "" => inv[t].outcome = Returned(inv[t].ercall.val)

\* C3 (amended): if the target raises an exception deriving from Exception,
\* the wrapped call returns error_return itself when it is not callable and
\* the result of calling error_return() when it is callable.
C3_ReturnsErrorReturnOnException ==
    \A t \in Threads :
        (Finished(t) /\ TargetRaised(t) /\ inv[t].target.exc \in ExceptionClasses) =>
            /\ ~Closure(t).error_return.callable =>
                    inv[t].outcome = Returned(Closure(t).error_return.value)
            /\ Closure(t).error_return.callable =>
                    /\ inv[t].ercalled
                    /\ inv[t].ercall.exc = "" => inv[t].outcome = Returned(inv[t].ercall.val)

C3_Witness ==
    \E t \in Threads :
        /\ Finished(t)
        /\ inv[t].target.exc = "ZeroDivisionError"
        /\ Closure(t).error_return.callable
        /\ inv[t].ercall.exc = ""
        /\ inv[t].outcome = Returned(PyStr("fallback"))

\* C4: if the target (its documentation carries no tag, the function
\* category enabled) returns v, the wrapped call returns v unchanged and,
\* the write accepted by the sink, exactly one record is persisted for the
\* invocation, with level LOG and function_return the stringified v.
C4_SuccessRecord ==
    \A t \in Threads :
        ( /\ Finished(t)
          /\ inv[t].target.kind = "return"
          /\ Docs[Closure(t).doc] = NoDoc
          /\ Closure(t).is_record["function"] = TRUE ) =>
            /\ inv[t].outcome = Returned(inv[t].target.val)
            /\ inv[t].sink = "ok" =>
                /\ Cardinality(RowsOf(inv[t].id)) = 1
                /\ \A k \in RowsOf(inv[t].id) :
                    /\ persisted[k].rec["level"] = PyStr("LOG")
                    /\ persisted[k].rec["function_return"] = PyStr(Str(inv[t].target.val))

C7_InnerFailureText ==
    \A t \in Threads :
        (Finished(t) /\ inv[t].ercalled /\ inv[t].ercall.exc # "") =>
            /\ inv[t].outcome = Returned(ErrorText(t))
            /\ inv[t].outputs = 1

\* C7 (amended): if error_return is callable and calling it raises an
\* exception deriving from Exception, the wrapped call returns a text
\* describing the inner failure and nothing propagates; an exception outside
\* Exception propagates to the caller; in both cases the record is handed to
\* the sink.
C7_InnerExceptionText ==
    \A t \in Threads :
        (Finished(t) /\ inv[t].ercalled /\ inv[t].ercall.exc # "") =>
            /\ inv[t].ercall.exc \in ExceptionClasses =>
                    inv[t].outcome = Returned(ErrorText(t))
            /\ inv[t].ercall.exc \notin ExceptionClasses =>
                    inv[t].outcome = Raised(inv[t].ercall.exc)
            /\ inv[t].outputs = 1

C7_Witness ==
    \E t \in Threads :
        /\ Finished(t)
        /\ inv[t].ercalled
        /\ inv[t].ercall.exc = "ValueError"
        /\ inv[t].outcome = Returned(PyStr("Error return function error: boom"))
        /\ inv[t].outputs = 1

\* C8: each persisted record carries the args and the function_return of the
\* invocation that wrote it, under every interleaving of the calls (and
\* carries neither field when the function category is not recorded).
C8_OwnArgsAndReturn ==
    \A k \in DOMAIN persisted : \A t \in Threads :
        (inv[t].id = persisted[k].by /\ inv[t].pc \in {"recorded", "done"}) =>
            LET rec == persisted[k].rec
            IN  IF Closure(t).is_record["function"] = TRUE
                THEN /\ {"args", "function_return"} \subseteq DOMAIN rec
                     /\ rec["args"] = PyStr(StrArgs(inv[t].args))
                     /\ rec["function_return"] = PyStr(Str(inv[t].return_value))
                ELSE {"args", "function_return"} \cap DOMAIN rec = {}

\* Two calls of the same wrapped function in flight together, both written.
C8_Witness ==
    /\ \A t \in Threads : inv[t].pc = "recorded" /\ inv[t].sink = "ok"
    /\ inv["t1"].w = inv["t2"].w
    /\ inv["t1"].args # inv["t2"].args
    /\ Closure("t1").is_record["function"] = TRUE
    /\ Len(persisted) = 2

\* C9: once a function has been wrapped, the base configuration its records
\* are built from (level, tag, message, the set of active fields) never
\* changes.
C9_BaseConfigurationFixed ==
    [][wrappers # <<>> =>
        (objs["logger"].field_default_value)' = objs["logger"].field_default_value]_vars

\* C10: with a Logger constructed with the default configuration, every
\* record of a function without documentation has the catalog defaults:
\* level LOG and every catalog field present.
C10_UndocumentedDefaults ==
    \A k \in DOMAIN persisted : \A t \in Threads :
        ( /\ inv[t].id = persisted[k].by
          /\ InitConfigs[init_config] = EmptyDict
          /\ Docs[Closure(t).doc] = NoDoc ) =>
            /\ persisted[k].rec["level"] = PyStr("LOG")
            /\ DOMAIN persisted[k].rec = DOMAIN FIELD_DEFAULT_VALUE

-----------------------------------------------------------------------------
(* Properties of the older sinks *)

OldFinished(t) == old.inv[t].pc = "done"

\* C6: in SQLiteLog.try_except of the older sinks a failure of log_to_db
\* never masks or alters the outward result: if the target returned v the
\* call returns v, if the target raised (an Exception) the call returns
\* error_return, and the storage error does not reach the caller.
C6_StorageFailureContained ==
    \A t \in Threads :
        (OldFinished(t) /\ old.inv[t].logfail # "") =>
            /\ old.inv[t].target.kind = "return" =>
                    old.inv[t].outcome = Returned(old.inv[t].target.val)
            /\ old.inv[t].target.kind = "raise" =>
                    old.inv[t].outcome = Returned(old.wrappers[old.inv[t].w].error_return)
            /\ old.inv[t].outcome.kind # "raised"

\* The rows written for an invocation that returned normally: their
\* message is "result: " followed by the repr of the result.
SuccessRows ==
    {k \in DOMAIN old.rows :
        /\ "message" \in DOMAIN old.rows[k].rec
        /\ \E v \in RetValues : old.rows[k].rec["message"] = PyStr("result: " \o Str(v))}

\* C34: in the sink of src/src/sqlite_log/sqlite_log.py the record of a
\* successful invocation has no traceback, whatever ran before it.
C34_SuccessHasNoTraceback ==
    old.variant = "dict"
        => \A k \in SuccessRows : "traceback" \notin DOMAIN old.rows[k].rec

\* The wrapper that made invocation id: the invocation is still the last
\* one of its thread when its row is written.
WrapperOfRow(k) ==
    LET t == CHOOSE t \in Threads : old.inv[t].id = old.rows[k].by
    IN  old.wrappers[old.inv[t].w]

\* C35: in the sink of src/src/sqlite_log/sqlite_log.py the tag and the
\* extra_info of the record just written are those of the documentation of
\* the function that was invoked.
C35_TagOfInvokedFunction ==
    (old.variant = "dict" /\ old.rows # <<>>
        /\ \E t \in Threads : old.inv[t].id = old.rows[Len(old.rows)].by)
        => LET k == Len(old.rows)
           IN  /\ old.rows[k].rec["tag"] = PyStr(WrapperOfRow(k).tag)
               /\ old.rows[k].rec["extra_info"] = PyStr(WrapperOfRow(k).extra_info)

\* C36: a step of the older sinks, which calls log_to_db at most once,
\* creates at most one database file, and check_and_switch_db never ends
\* in the RecursionError of a recursion that did not terminate.
C36_SwitchTerminates ==
    [][/\ old'.files <= old.files + 1
       /\ \A t \in Threads : old'.inv[t].logfail # "RecursionError"]_vars

-----------------------------------------------------------------------------
(* Properties of the tags *)

\* The wrapped functions whose documentation has exactly the tokens toks.
DocIs(i, toks) == Docs[wrappers[i].doc] = Doc(toks)

\* C11: every record of a successful invocation of a function whose
\* documentation is "#level:WARN #gpu:false" has level WARN and no gpu
\* field, whatever config the Logger was constructed with.
C11_WarnNoGpu ==
    \A t \in Threads : \A k \in RowsOf(inv[t].id) :
        ( /\ inv[t].pc \in {"recorded", "done"}
          /\ inv[t].target.kind = "return"
          /\ DocIs(inv[t].w, << <<"level", "WARN">>, <<"gpu", "false">> >>) ) =>
            /\ persisted[k].rec["level"] = PyStr("WARN")
            /\ "gpu" \notin DOMAIN persisted[k].rec

\* C13: the records of a function whose documentation is "#function:false"
\* (respectively "#thread:false") contain none of the fields of the function
\* (respectively thread) category.
C13_CategoryTagDisables ==
    \A t \in Threads : \A k \in RowsOf(inv[t].id) :
        inv[t].pc \in {"recorded", "done"} =>
            /\ DocIs(inv[t].w, << <<"function", "false">> >>) =>
                    Range(FIELD_GROUP.function) \cap DOMAIN persisted[k].rec = {}
            /\ DocIs(inv[t].w, << <<"thread", "false">> >>) =>
                    Range(FIELD_GROUP.thread) \cap DOMAIN persisted[k].rec = {}

\* C14: tag parsing is never fatal: whatever the documentation, wrapping the
\* function completes without raising.
C14_ParsingNeverFatal == wrap_exc = ""

-----------------------------------------------------------------------------
(* Properties of LoggerInfo *)

\* The category that owns a field: error_type and traceback are filled by
\* the wrapper for the function category only (logger.py lines 130-133).
Owner(f) ==
    IF f \in Range(FIELD_GROUP.function) \cup {"error_type", "traceback"} THEN "function"
    ELSE IF f \in Range(FIELD_GROUP.thread) THEN "thread"
    ELSE IF f \in Range(FIELD_GROUP.system) THEN f
    ELSE "base"

\* The fields whose owning category is enabled in the configuration of li.
EnabledFields(li) ==
    {f \in DOMAIN FIELD_DEFAULT_VALUE : Owner(f) = "base" \/ li.config[Owner(f)] = TRUE}

\* C15: in every reachable state of a LoggerInfo its values map contains
\* exactly the fields whose owning category is enabled, error_type and
\* traceback counting as fields of the function category.
C15_ExactlyEnabledFields ==
    \A o \in InfoObjs : DOMAIN objs[o].field_value = EnabledFields(objs[o])

C17_SetFieldValue ==
    [][ last'.op = "set_field_value" =>
            LET before == objs[last'.obj]
                after  == objs'[last'.obj]
                name   == last'.key
            IN  /\ last'.raised = ""
                /\ name \notin DOMAIN before.field_value =>
                        /\ last'.ret = FALSE
                        /\ after = before
                /\ name \in DOMAIN before.field_value =>
                        /\ last'.ret = TRUE
                        /\ after.field_value[name] = last'.value
                        /\ DOMAIN after.field_value = DOMAIN before.field_value
                        /\ \A f \in DOMAIN before.field_value \ {name} :
                                after.field_value[f] = before.field_value[f]
                        /\ after.config = before.config
                        /\ after.field_default_value = before.field_default_value ]_vars

\* set_field_value has been refused for a field of a disabled category.
C17_Witness ==
    /\ last.op = "set_field_value"
    /\ last.key = "gpu"
    /\ last.ret = FALSE
    /\ "gpu" \notin DOMAIN objs[last.obj].field_value

-----------------------------------------------------------------------------
(* Properties of the rotating sink *)

\* C12: a file that holds a record without the gpu field (the category was
\* disabled, by the config or by a tag) has a logs table without a gpu
\* column.
C12_NoGpuColumn ==
    \A f \in FileIndexes :
        \A n \in 1..Len(sink.files[f].rows) :
            "gpu" \notin DOMAIN sink.files[f].rows[n] => "gpu" \notin sink.files[f].columns

\* C18: an output call advances the index of the current file by one when
\* the estimates of the records written to the current file, this one
\* included, add up to the threshold or more, and leaves it alone otherwise.
C18_AdvancePerCrossing ==
    [][(sink.state = "ready" /\ sink'.outputs = sink.outputs + 1 /\ sink'.exc = "")
        => sink'.db_index =
              IF sink.written + sink'.estimate >= sink.db_max_size
              THEN sink.db_index + 1 ELSE sink.db_index]_vars

\* C19: between two calls of init the index of the current file never
\* decreases and no file below the index of the current file receives a row.
C19_IndexMonotonic ==
    [][(sink.state = "ready" /\ sink'.inits = sink.inits)
        => /\ sink'.db_index >= sink.db_index
           /\ \A i \in FileIndexes :
                 i < sink.db_index => sink'.files[i].rows = sink.files[i].rows]_vars

\* Since its only init the sink has advanced to file 1 and has written rows
\* to file 0 and to file 1.
C19_Witness ==
    /\ sink.state = "ready"
    /\ sink.inits = 1
    /\ sink.db_index = 1
    /\ Len(sink.files[0].rows) > 0
    /\ Len(sink.files[1].rows) > 0

\* C20: right after init every file below the current one exists and is
\* full, and the current file was created by init or is below the threshold.
C20_InitSkipsFullFiles ==
    (sink.state = "ready" /\ sink.since = 0)
        => /\ \A j \in FileIndexes :
                 j < sink.db_index
                    => sink.files[j].exists /\ sink.files[j].size >= sink.db_max_size
           /\ \/ sink.created
              \/ sink.files[sink.db_index].size < sink.db_max_size

\* C21: the first file the sink creates in an empty directory has index 0,
\* and every file it creates is the file of the index of that moment.
C21_FirstIndexZero ==
    [][\A f \in FileIndexes :
          (~sink.files[f].exists /\ sink'.files[f].exists)
             => /\ f = sink'.db_index
                /\ (\A g \in FileIndexes : ~sink.files[g].exists) => f = 0]_vars

\* The sink has created file 0 in the empty directory and, by rotation,
\* file 1.
C21_Witness ==
    /\ sink.state = "ready"
    /\ sink.inits = 1
    /\ sink.created
    /\ sink.files[0].exists
    /\ sink.db_index = 1
    /\ sink.files[1].table

\* C21 as stated: the first file the sink creates in an empty directory has
\* index 1, and every file it creates is the file of the index of that moment.
C21_FirstIndexOne ==
    [][\A f \in FileIndexes :
          (~sink.files[f].exists /\ sink'.files[f].exists)
             => /\ f = sink'.db_index
                /\ (\A g \in FileIndexes : ~sink.files[g].exists) => f = 1]_vars

\* C22: an output call that leaves the sink on the same file leaves the
\* estimate larger than before, by the estimate of the record written.
C22_EstimateGrows ==
    [][(sink.state = "ready" /\ sink'.outputs = sink.outputs + 1 /\ sink'.exc = ""
        /\ sink'.db_index = sink.db_index)
        => /\ sink'.db_size >= sink.db_size
           /\ sink'.db_size = sink.db_size + sink'.estimate]_vars

\* C23: without auto-close, an output call that stays on the file whose
\* connection the sink holds makes no new connection, and at no moment are
\* two connections open.
C23_ConnectionReused ==
    [][(sink.state = "ready" /\ ~sink.auto_close /\ sink.conn_open
        /\ sink'.outputs = sink.outputs + 1 /\ sink'.db_index = sink.db_index)
        => sink'.connects = 0 /\ sink'.peak <= 1]_vars

\* A step of get: neither init nor output, and the sink has changed.
IsGet ==
    /\ sink.state = "ready"
    /\ sink'.inits = sink.inits
    /\ sink'.outputs = sink.outputs
    /\ sink' # sink

\* C24: get with the rule {"level": {"=": "LOG"}}, called when the record
\* of division(1, 2) is in the current file, succeeds and returns a row
\* with the level, function_name, args and function_return written.
C24_RoundTrip ==
    [][(IsGet /\ sink'.got.rule = 2 /\ Len(sink.files[sink.db_file].rows) > 0)
        => /\ sink'.got.exc = ""
           /\ \E n \in DOMAIN sink'.got.rows :
                 LET rec == sink'.got.rows[n][2]
                 IN  /\ rec["level"] = PyStr("LOG")
                     /\ rec["function_name"] = PyStr("division")
                     /\ rec["args"] = PyStr("(1, 2)")
                     /\ rec["function_return"] = PyStr("0.5")]_vars

\* C25: a statement get has executed has comparators of SQLCondition only.
C25_ComparatorsWhitelisted ==
    (sink.state = "ready" /\ sink.got.rule # 0 /\ sink.got.exc = "")
        => \A c \in DOMAIN sink.got.conds : sink.got.conds[c].condition \in SQLCondition

\* C26: get reads the file init ended on, whatever the index has become.
C26_GetIgnoresRotation ==
    [][IsGet => sink'.got.file = sink.opened]_vars

-----------------------------------------------------------------------------
(* Properties of ReadLog *)

\* C27: a query made after next_db has been called on a reader opened at
\* index i reads the file of index i plus the number of next_db calls.
C27_NextDbAdvances ==
    (reader.state # "none" /\ reader.nexts > 0 /\ reader.result.query # ""
     /\ reader.result.exc = "")
        => reader.result.file = reader.start + reader.nexts

-----------------------------------------------------------------------------
(* Properties of concurrent output calls *)

\* C28: when a thread writes the estimate back, the estimate has grown by
\* the estimate of that thread's record, whatever the other thread did in
\* between; and when no output call is in progress, every index up to the
\* current one has its file (no index was skipped).
C28_RotationSerialized ==
    [][/\ \A t \in Threads :
             (outs[t].pc = "loaded" /\ outs'[t].pc = "stored")
                => sink'.db_size = sink.db_size + outs[t].estimate
       /\ (\A t \in Threads : outs'[t].pc = "idle")
             => \A i \in FileIndexes : i <= sink'.db_index => sink'.files[i].exists]_vars

-----------------------------------------------------------------------------
(* Properties of one invocation of a wrapper *)

\* C29: an invocation attempts no write before its target has finished and
\* error_return has been evaluated, and exactly one write by the time the
\* wrapper is left.
C29_OneWritePerInvocation ==
    \A t \in Threads :
        /\ inv[t].pc \in {"idle", "running", "success", "failure"} => inv[t].outputs = 0
        /\ inv[t].pc \in {"recorded", "done"}
              => inv[t].outputs = 1 /\ inv[t].target.kind # "none"

\* C30: with the default configuration a finished invocation has called its
\* target: the context capture has not raised.
C30_CaptureNeverRaises ==
    \A t \in Threads :
        (InitConfigs[init_config] = EmptyDict /\ inv[t].pc = "done")
            => inv[t].target.kind # "none"

-----------------------------------------------------------------------------
(* Properties of LoggerField *)

\* The fields of the categories whose flag is False.
FlaggedOff(flags) ==
    (IF ~flags.is_system_info THEN {"system_info"} ELSE {})
    \cup (IF ~flags.is_host_info THEN {"host_info"} ELSE {})
    \cup (IF ~flags.is_tag THEN {"tag"} ELSE {})
    \cup (IF ~flags.is_function_info
          THEN {"function_file_name", "function_line_number", "function_name", "args", "kwargs"}
          ELSE {})
    \cup (IF ~flags.is_thread_info THEN {"thread_name", "thread_id", "process_id"} ELSE {})
    \cup (IF ~flags.is_traceback THEN {"traceback"} ELSE {})

\* C31: the field list of a LoggerField is LOGGER_TABLE_INFO without the
\* fields of the categories whose flag is False, and with all the others.
C31_FlagsRemoveFields ==
    field.state \in {"constructed", "named"}
        => LET Keep(f) == f.field_name \notin FlaggedOff(field.flags)
           IN  field.info = SelectSeq(LOGGER_TABLE_INFO, Keep)

-----------------------------------------------------------------------------
(* Properties of the records handed to the sink *)

\* C32: every value of a record the wrapper has handed to the output has
\* the type of the field's default value, which is the type of its column.
C32_ValuesHaveColumnType ==
    \A k \in DOMAIN persisted :
        \A f \in DOMAIN persisted[k].rec :
            persisted[k].rec[f][1] = FIELD_DEFAULT_VALUE[f][1]

\* C33: the fields of the record the Logger hands to the sink are columns
\* of the logs table of the current file, and no output has failed for a
\* column the table does not have.
C33_RecordFitsTable ==
    sink.state = "ready"
        => /\ DOMAIN get_field_value(objs["logger"]) \subseteq sink.files[sink.db_file].columns
           /\ sink.exc # "OperationalError"

\* C37: the list of field names get has returned has one name per value
\* of every row returned with it.
C37_NamesMatchRows ==
    (sink.state = "ready" /\ sink.got.rule # 0 /\ sink.got.exc = "")
        => \A k \in DOMAIN sink.got.data : Len(sink.got.names) = Len(sink.got.data[k])

-----------------------------------------------------------------------------
(* Properties of two threads inside __insert_data *)

\* C38: no write of either thread ends with an exception, and no thread
\* is left outside output with a row it inserted and did not commit.
C38_NoWriteFails ==
    \A t \in Threads :
        /\ outs[t].exc = ""
        /\ outs[t].pc = "idle" => outs[t].pending = 0

====
